---- MODULE Spec2Model ----
(***************************************************************************)
(* Scrum-poker backend: the room registry (game.Hub), the room state       *)
(* machine (game.Room, game.Player) and the WebSocket dispatcher and timer *)
(* tasks (handler.WebSocketHandler).                                        *)
(*                                                                         *)
(* Strings that the code only compares are modelled by small integers:     *)
(* a player id is a number of PlayerIDs and the empty id "" is NoID; a     *)
(* cancellation channel is a positive number and the nil channel is        *)
(* NilChan; a *Room is a reference into the heap and nil is NilRoom.        *)
(* A vote token or a room code is the sequence of its characters.          *)
(***************************************************************************)
EXTENDS Integers, Sequences, FiniteSets, TLC

(* ------------------------------ bounds -------------------------------- *)

\* Connections (one fresh uuid each) that come to a room while it has
\* seats; one more, the latecomer, comes where a full room is looked at.
NumPlayers == 2

\* Room's ceiling on participants (30 in room.go), scaled down so that a
\* room fills up.
MaxPlayers == 2

\* StartTimer calls (each makes one cancellation channel) in one behaviour.
MaxTimers == 2

\* Client frames the dispatchers read in one behaviour.
MaxFrames == 2

\* Room objects the registry may construct in one behaviour.
MaxRoomRefs == 3

\* Hub's ceiling on registered rooms (1000 in hub.go), scaled down so that a
\* registry fills up.
MaxRooms == 2

\* Ticks of the periodic sweep in one behaviour.
MaxSweeps == 1

\* Stats requests in one behaviour.
MaxStats == 1

\* Values of rand.Intn(1000) the avatar fallback may draw.
MaxSuffix == 2

(* ------------------------- program constants -------------------------- *)

\* handleStartTimer accepts 1..MaxTimerDuration seconds.
MaxTimerDuration == 300

NoID == 0

NilChan == 0

NilRoom == 0

NoTime == 0

PlayerIDs == 1..NumPlayers

\* The connection that arrives after those of PlayerIDs.
Latecomer == NumPlayers + 1

ConnIDs == PlayerIDs \cup {Latecomer}

RoomRefs == 1..MaxRoomRefs

\* game.Avatars: the catalogue, in order.
Avatars == <<"sheriff", "outlaw", "cowgirl", "prospector", "banker", "deputy",
             "saloon-owner", "bounty-hunter">>

\* A token is the sequence of its characters, so that parsing is computed.
Tok1 == <<"1">>

Tok5 == <<"5">>

Tok8 == <<"8">>

Tok13 == <<"1", "3">>

TokUnknown == <<"?">>

TokXL == <<"X", "L">>

NoVote == <<>>

\* models.PresetScales[ScaleFibonacci].Values
ScaleFibonacci ==
    <<Tok1, <<"2">>, <<"3">>, Tok5, Tok8, Tok13, <<"2", "1">>, TokUnknown>>

\* Tokens a client may put in a vote frame: scale tokens, the empty token
\* (unvote) and one token that is on no scale.
VoteTokens == {NoVote, Tok5, Tok8, TokUnknown, TokXL}

\* LastActive, abstracted to what IsExpired reads: whether more than
\* ExpiryHours have passed since the room was last touched.
Fresh == 0

Stale == 1

(* ------------------------------ helpers ------------------------------- *)

Lower == <<"a", "b", "c", "d", "e", "f">>

Upper == <<"A", "B", "C", "D", "E", "F">>

\* strings.ToUpper, character by character.
ToUpper(str) ==
    [i \in DOMAIN str |->
        IF \E j \in DOMAIN Lower : Lower[j] = str[i]
        THEN Upper[CHOOSE j \in DOMAIN Lower : Lower[j] = str[i]]
        ELSE str[i]]

Range(s) == {s[i] : i \in DOMAIN s}

\* delete(m, k) on a Go map.
MapDelete(m, k) == [x \in (DOMAIN m) \ {k} |-> m[x]]

\* m[k] = v on a Go map.
MapPut(m, k, v) == [x \in (DOMAIN m) \cup {k} |-> IF x = k THEN v ELSE m[x]]

EmptyMap == [x \in {} |-> 0]

(* --------------------------- game.Player ------------------------------ *)

\* NewPlayer(id, name, "", conn, false): the fields the room logic reads.
NewPlayer(id, isHost) ==
    [ID |-> id, Avatar |-> <<"", -1>>, HasVoted |-> FALSE, Vote |-> NoVote,
     IsHost |-> isHost]

\* A mutant of SetVote: the flag is set whatever the token is.
SetVoteMarksAlways(p, vote) == [p EXCEPT !.Vote = vote, !.HasVoted = TRUE]

\* Player.SetVote
SetVote(p, vote) ==
    IF vote = NoVote
    THEN [p EXCEPT !.Vote = NoVote, !.HasVoted = FALSE]
    ELSE [p EXCEPT !.Vote = vote, !.HasVoted = TRUE]

\* Player.ResetVote
ResetVote(p) == [p EXCEPT !.HasVoted = FALSE, !.Vote = NoVote]

\* A mutant of ToModel: the vote is copied whatever includeVote says.
ToModelAlwaysVote(p, includeVote) ==
    [ID |-> p.ID, Avatar |-> p.Avatar, HasVoted |-> p.HasVoted,
     IsHost |-> p.IsHost, Vote |-> p.Vote]

\* Player.ToModel: the vote is copied only when includeVote.
ToModel(p, includeVote) ==
    [ID |-> p.ID, Avatar |-> p.Avatar, HasVoted |-> p.HasVoted,
     IsHost |-> p.IsHost, Vote |-> IF includeVote THEN p.Vote ELSE NoVote]

(* ---------------------------- game.Room ------------------------------- *)

\* NewRoomWithScale(code, expiryHours, scaleType)
NewRoomWithScale(code) ==
    [Code |-> code, Players |-> EmptyMap, Revealed |-> FALSE, HostID |-> NoID,
     LastActive |-> Fresh, Scale |-> ScaleFibonacci, TimerEndTime |-> NoTime,
     TimerAutoReveal |-> FALSE, timerCancel |-> NilChan, usedAvatars |-> {}]

\* The first catalogue entry not in use, 0 when all are in use.
FirstUnused(used) ==
    IF \E i \in DOMAIN Avatars : <<Avatars[i], -1>> \notin used
    THEN CHOOSE i \in DOMAIN Avatars :
            /\ <<Avatars[i], -1>> \notin used
            /\ \A j \in 1..(i - 1) : <<Avatars[j], -1>> \in used
    ELSE 0

\* Room.assignAvatar: the avatar assigned and the usedAvatars map after it.
\* An avatar is <<catalogue name, suffix>>, suffix -1 for none; rnd is the
\* pair of rand.Intn draws of the fallback.  usedAvatars is kept as the set
\* of keys mapped to true (a key mapped to false reads like an absent one).
assignAvatar(r, rnd) ==
    LET i == FirstUnused(r.usedAvatars) IN
    IF i # 0
    THEN [avatar |-> <<Avatars[i], -1>>,
          used |-> r.usedAvatars \cup {<<Avatars[i], -1>>}]
    ELSE [avatar |-> <<Avatars[rnd[1]], rnd[2]>>, used |-> r.usedAvatars]

\* The draws assignAvatar may make (none is made while an entry is unused).
RandDraws(r) ==
    IF FirstUnused(r.usedAvatars) # 0 THEN {<<1, 0>>}
    ELSE (DOMAIN Avatars) \X (0..(MaxSuffix - 1))

\* A mutant of AddPlayer: the ceiling is not looked at.
AddPlayerNoCeiling(r, id, rnd) ==
    LET a == assignAvatar(r, rnd)
        first == Cardinality(DOMAIN r.Players) = 0
        pl == [NewPlayer(id, FALSE) EXCEPT !.Avatar = a.avatar, !.IsHost = first]
    IN [ok |-> TRUE,
        room |-> [r EXCEPT !.usedAvatars = a.used,
                           !.HostID = IF first THEN id ELSE r.HostID,
                           !.Players = MapPut(r.Players, id, pl),
                           !.LastActive = Fresh]]

\* A mutant of AddPlayer: every joiner is made host.
AddPlayerAlwaysHost(r, id, rnd) ==
    LET a == assignAvatar(r, rnd)
        pl == [NewPlayer(id, FALSE) EXCEPT !.Avatar = a.avatar, !.IsHost = TRUE]
    IN IF Cardinality(DOMAIN r.Players) >= MaxPlayers
       THEN [ok |-> FALSE, room |-> r]
       ELSE [ok |-> TRUE,
             room |-> [r EXCEPT !.usedAvatars = a.used, !.HostID = id,
                                !.Players = MapPut(r.Players, id, pl),
                                !.LastActive = Fresh]]

\* Room.AddPlayer(player), player = NewPlayer(id, .., false).
AddPlayer(r, id, rnd) ==
    LET a == assignAvatar(r, rnd)
        first == Cardinality(DOMAIN r.Players) = 0
        pl == [NewPlayer(id, FALSE) EXCEPT !.Avatar = a.avatar, !.IsHost = first]
    IN IF Cardinality(DOMAIN r.Players) >= MaxPlayers
       THEN [ok |-> FALSE, room |-> r]
       ELSE [ok |-> TRUE,
             room |-> [r EXCEPT !.usedAvatars = a.used,
                                !.HostID = IF first THEN id ELSE r.HostID,
                                !.Players = MapPut(r.Players, id, pl),
                                !.LastActive = Fresh]]

\* A mutant of RemovePlayer: the avatar of the removed player stays in use.
RemovePlayerKeepsAvatar(r, playerID, next) ==
    IF playerID \in DOMAIN r.Players
    THEN LET rest == MapDelete(r.Players, playerID)
             promote == r.HostID = playerID /\ DOMAIN rest # {}
         IN [r EXCEPT
               !.Players = IF promote
                           THEN [rest EXCEPT ![next].IsHost = TRUE]
                           ELSE rest,
               !.HostID = IF promote THEN next ELSE r.HostID,
               !.LastActive = Fresh]
    ELSE [r EXCEPT !.LastActive = Fresh]

\* Room.RemovePlayer(playerID); next is the first player the range over the
\* remaining map yields (any of them: map order is unspecified).
RemovePlayer(r, playerID, next) ==
    IF playerID \in DOMAIN r.Players
    THEN LET rest == MapDelete(r.Players, playerID)
             promote == r.HostID = playerID /\ DOMAIN rest # {}
         IN [r EXCEPT
               !.usedAvatars = r.usedAvatars \ {r.Players[playerID].Avatar},
               !.Players = IF promote
                           THEN [rest EXCEPT ![next].IsHost = TRUE]
                           ELSE rest,
               !.HostID = IF promote THEN next ELSE r.HostID,
               !.LastActive = Fresh]
    ELSE [r EXCEPT !.LastActive = Fresh]

\* The players RemovePlayer's range may yield first.
NextHosts(r, playerID) ==
    IF (DOMAIN r.Players) \ {playerID} = {} THEN {NoID}
    ELSE (DOMAIN r.Players) \ {playerID}

\* A mutant of Vote: a vote is refused once the round is revealed.
VoteWhileHidden(r, playerID, vote) ==
    IF playerID \in DOMAIN r.Players /\ ~r.Revealed
    THEN [ok |-> TRUE,
          room |-> [r EXCEPT !.Players[playerID] = SetVote(@, vote),
                             !.LastActive = Fresh]]
    ELSE [ok |-> FALSE, room |-> r]

\* Room.Vote(playerID, vote)
Vote(r, playerID, vote) ==
    IF playerID \in DOMAIN r.Players
    THEN [ok |-> TRUE,
          room |-> [r EXCEPT !.Players[playerID] = SetVote(@, vote),
                             !.LastActive = Fresh]]
    ELSE [ok |-> FALSE, room |-> r]

\* A mutant of Reveal: the host check is missing.
RevealAnyone(r, playerID) ==
    [ok |-> TRUE, room |-> [r EXCEPT !.Revealed = TRUE, !.LastActive = Fresh]]

\* Room.Reveal(playerID)
Reveal(r, playerID) ==
    IF r.HostID # playerID
    THEN [ok |-> FALSE, room |-> r]
    ELSE [ok |-> TRUE, room |-> [r EXCEPT !.Revealed = TRUE, !.LastActive = Fresh]]

\* A mutant of Reset: the votes are left as they are.
ResetKeepsVotes(r) == [r EXCEPT !.Revealed = FALSE, !.LastActive = Fresh]

\* Room.Reset()
Reset(r) ==
    [r EXCEPT !.Revealed = FALSE,
              !.Players = [q \in DOMAIN r.Players |-> ResetVote(r.Players[q])],
              !.LastActive = Fresh]

\* Room.GetState(forPlayerID).  TimerEndTime is reported while it lies in
\* the future; timerLive says whether it does.
GetState(r, forPlayerID, timerLive) ==
    [Code |-> r.Code,
     Players |-> {ToModel(r.Players[q], r.Revealed) : q \in DOMAIN r.Players},
     Revealed |-> r.Revealed, CurrentPlayerID |-> forPlayerID,
     HostID |-> r.HostID, Scale |-> r.Scale,
     TimerAutoReveal |-> r.TimerAutoReveal,
     TimerEndTime |-> IF r.TimerEndTime # NoTime /\ timerLive
                      THEN r.TimerEndTime ELSE NoTime]

\* Room.IsEmpty
IsEmpty(r) == Cardinality(DOMAIN r.Players) = 0

\* Room.IsExpired
IsExpired(r) == r.LastActive = Stale

\* Room.PlayerCount
PlayerCount(r) == Cardinality(DOMAIN r.Players)

Digits == <<"0", "1", "2", "3", "4", "5", "6", "7", "8", "9">>

\* The value of a decimal digit character, -1 for any other character.
DigitVal(c) ==
    IF \E i \in DOMAIN Digits : Digits[i] = c
    THEN (CHOOSE i \in DOMAIN Digits : Digits[i] = c) - 1
    ELSE -1

RECURSIVE DecimalValue(_)
DecimalValue(tok) ==
    IF tok = <<>> THEN 0
    ELSE 10 * DecimalValue(SubSeq(tok, 1, Len(tok) - 1)) + DigitVal(tok[Len(tok)])

\* strconv.ParseFloat(tok, 64) on the tokens of the model: an unsigned
\* decimal integer parses, the empty string and any other character do not.
ParseFloat(tok) ==
    IF tok # <<>> /\ \A i \in DOMAIN tok : DigitVal(tok[i]) >= 0
    THEN [err |-> FALSE, val |-> DecimalValue(tok)]
    ELSE [err |-> TRUE, val |-> 0]

RECURSIVE SumOver(_, _)
\* The sum of f over the finite set S.
SumOver(f, S) ==
    IF S = {} THEN 0
    ELSE LET x == CHOOSE y \in S : TRUE IN f[x] + SumOver(f, S \ {x})

\* A mutant of GetVotingResults: the sum is divided by the number of all
\* votes, the ones that do not parse included.
GetVotingResultsOverAll(r) ==
    LET voted == {q \in DOMAIN r.Players : r.Players[q].HasVoted}
        numeric == {q \in voted : ~ParseFloat(r.Players[q].Vote).err}
        val == [q \in numeric |-> ParseFloat(r.Players[q].Vote).val]
        count == Cardinality(voted)
    IN [Votes |-> [q \in voted |-> r.Players[q].Vote],
        Average |-> IF count > 0 THEN <<SumOver(val, numeric), count>> ELSE <<0, 1>>,
        Revealed |-> r.Revealed]

\* Room.GetVotingResults.  The float64 average sum / count is kept as the
\* exact fraction <<sum, count>>, and as <<0, 1>> when count = 0.
GetVotingResults(r) ==
    LET voted == {q \in DOMAIN r.Players : r.Players[q].HasVoted}
        numeric == {q \in voted : ~ParseFloat(r.Players[q].Vote).err}
        val == [q \in numeric |-> ParseFloat(r.Players[q].Vote).val]
        count == Cardinality(numeric)
    IN [Votes |-> [q \in voted |-> r.Players[q].Vote],
        Average |-> IF count > 0 THEN <<SumOver(val, numeric), count>> ELSE <<0, 1>>,
        Revealed |-> r.Revealed]

\* Room.StartTimer(playerID, durationSec, autoReveal): ch is the channel
\* that make(chan struct{}) returns and endTime the deadline; closes is
\* the channel the call closes (NilChan: none).
StartTimer(r, playerID, autoReveal, ch, endTime) ==
    IF r.HostID # playerID
    THEN [ok |-> FALSE, room |-> r, closes |-> NilChan]
    ELSE [ok |-> TRUE,
          room |-> [r EXCEPT !.TimerEndTime = endTime,
                             !.TimerAutoReveal = autoReveal,
                             !.timerCancel = ch, !.LastActive = Fresh],
          closes |-> r.timerCancel]

\* A mutant of StopTimer: the requester is not compared with the host.
StopTimerAnyone(r, playerID) ==
    [ok |-> TRUE,
     room |-> [r EXCEPT !.TimerEndTime = NoTime, !.TimerAutoReveal = FALSE,
                        !.timerCancel = NilChan, !.LastActive = Fresh],
     closes |-> r.timerCancel]

\* Room.StopTimer(playerID)
\* A mutant of StopTimer: the signal is closed and stays the room's signal.
StopTimerKeepsSignal(r, playerID) ==
    IF r.HostID # playerID
    THEN [ok |-> FALSE, room |-> r, closes |-> NilChan]
    ELSE [ok |-> TRUE,
          room |-> [r EXCEPT !.TimerEndTime = NoTime, !.TimerAutoReveal = FALSE,
                             !.LastActive = Fresh],
          closes |-> r.timerCancel]

StopTimer(r, playerID) ==
    IF r.HostID # playerID
    THEN [ok |-> FALSE, room |-> r, closes |-> NilChan]
    ELSE [ok |-> TRUE,
          room |-> [r EXCEPT !.TimerEndTime = NoTime, !.TimerAutoReveal = FALSE,
                             !.timerCancel = NilChan, !.LastActive = Fresh],
          closes |-> r.timerCancel]

\* Room.GetTimerCancel
GetTimerCancel(r) == r.timerCancel

\* A mutant of ClearTimer: the deadline is left set.
ClearTimerKeepsDeadline(r) == [r EXCEPT !.timerCancel = NilChan]

\* Room.ClearTimer
ClearTimer(r) == [r EXCEPT !.TimerEndTime = NoTime, !.timerCancel = NilChan]

(* ------------------------------ messages ------------------------------ *)

NoState == GetState(NewRoomWithScale(<<>>), NoID, FALSE)

\* models.ServerMessage with its payload flattened; op is the number of the
\* client frame (0: none) whose handling sent the message.
Msg(type) ==
    [type |-> type, playerId |-> NoID, hasVoted |-> FALSE, newHostId |-> NoID,
     votes |-> EmptyMap, average |-> <<0, 1>>, revealed |-> FALSE,
     endTime |-> NoTime, autoReveal |-> FALSE, state |-> NoState,
     player |-> ToModel(NewPlayer(NoID, FALSE), FALSE), error |-> "", op |-> 0]

NoMsg == Msg("")

SyncMsg(state) == [Msg("sync") EXCEPT !.state = state]

ErrorMsg(text) == [Msg("error") EXCEPT !.error = text]

PlayerJoinMsg(pm) == [Msg("player_joined") EXCEPT !.player = pm]

PlayerLeftMsg(id, newHost) ==
    [Msg("player_left") EXCEPT !.playerId = id, !.newHostId = newHost]

VotedMsg(id, hasVoted, op) ==
    [Msg("voted") EXCEPT !.playerId = id, !.hasVoted = hasVoted, !.op = op]

RevealedMsg(res, op) ==
    [Msg("revealed") EXCEPT !.votes = res.Votes, !.average = res.Average,
                            !.revealed = res.Revealed, !.op = op]

TimerSyncMsg(endTime, autoReveal) ==
    [Msg("timer_sync") EXCEPT !.endTime = endTime, !.autoReveal = autoReveal]

TimerEndMsg == Msg("timer_end")

(* ------------------------------- state -------------------------------- *)

VARIABLES
    heap,        \* the Room objects, by reference
    nextRef,     \* Room objects constructed so far
    Rooms,       \* Hub.Rooms: code -> reference
    hmu,         \* Hub.mu: [w: the task holding Lock, r: the tasks holding RLock]
    rmu,         \* Room.mu of each room: the tasks holding RLock
    chanClosed,  \* the cancellation channels closed so far
    nextChan,    \* cancellation channels made so far
    stopped,     \* the countdowns that were pending at a successful StopTimer
    task,        \* the connection tasks and the timer tasks
    outbox,      \* per connection, the messages written to it, in order
    nframes,     \* client frames read so far
    applied,     \* the frames whose command changed a room, in the order applied
    defers,      \* the grace-period deferrals scheduled so far, in order
    sweep,       \* the periodic sweep task
    stats,       \* the task serving Stats requests
    deleted,     \* per room object, the removals of it from Hub.Rooms
    created      \* what the latest CreateRoom call returned (NilRoom: nil)

vars == <<heap, nextRef, Rooms, hmu, rmu, chanClosed, nextChan, stopped, task, outbox,
          nframes, applied, defers, sweep, stats, deleted, created>>

hubVars == <<nextRef, Rooms, hmu, defers, sweep, stats, deleted, created>>

timerVars == <<chanClosed, nextChan, stopped>>

ConnTask(p) == <<"conn", p>>

TimerTask(k) == <<"timer", k>>

NoTask == <<"none", 0>>

ConnTasks == {ConnTask(p) : p \in ConnIDs}

TimerTasks == {TimerTask(k) : k \in 1..MaxTimers}

\* A task's locals.  pc: where it stands; room: its *Room; msg, todo, next:
\* the message being sent, the players still to be sent it, and where the
\* task goes on afterwards; cur: the player a loop is at (for
\* BroadcastExcept, the player left out); seen: the players a range has
\* yielded; closed: whether
\* Conn.Close() was called; autoReveal, ch: a timer task's arguments and
\* its cancelChan; op: the frame being handled; to: the connection whose
\* send lock the task holds (it is inside that connection's WriteJSON).
NewTask ==
    [pc |-> "new", room |-> NilRoom, msg |-> NoMsg, todo |-> {}, next |-> "",
     cur |-> NoID, seen |-> {}, closed |-> FALSE, autoReveal |-> FALSE,
     ch |-> NilChan, op |-> 0, to |-> NoID]

\* The code of the room the registry holds when the connections arrive.
Lobby == ToUpper(<<"a", "b">>)

Init ==
    /\ heap = [o \in RoomRefs |->
                 IF o = 1 THEN NewRoomWithScale(Lobby) ELSE NewRoomWithScale(<<>>)]
    /\ nextRef = 1
    /\ Rooms = [c \in {Lobby} |-> 1]
    /\ hmu = [w |-> NoTask, r |-> {}]
    /\ rmu = [o \in RoomRefs |-> {}]
    /\ chanClosed = {}
    /\ nextChan = 0
    /\ stopped = {}
    /\ task = [t \in ConnTasks \cup TimerTasks |-> NewTask]
    /\ outbox = [p \in ConnIDs |-> <<>>]
    /\ nframes = 0
    /\ applied = <<>>
    /\ defers = <<>>
    /\ sweep = [pc |-> "idle", todo |-> {}, cur |-> <<>>, n |-> 0]
    /\ stats = [pc |-> "idle", todo |-> {}, cur |-> <<>>, n |-> 0, players |-> 0]
    /\ deleted = [o \in RoomRefs |-> 0]
    /\ created = 1

\* Room.mu.Lock() can be taken: no task holds RLock (a task holds Lock only
\* within one step).
CanLock(o) == rmu[o] = {}

\* The tasks blocked in Room.mu.Lock() of room o.
WaitingWriters(o) ==
    {t \in DOMAIN task : task[t].pc = "lock_wait" /\ task[t].room = o}

\* Room.mu.RLock() can be taken: sync.RWMutex admits no new reader while a
\* Lock() call is blocked (a task holds Lock only within one step).
CanRLock(o) == WaitingWriters(o) = {}

\* The countdowns whose task has been started and has not yet come out of
\* its select.
Pending == {k \in 1..MaxTimers : task[TimerTask(k)].pc \in {"spawned", "wait"}}

(* -------------------- calls on one room, one by one -------------------- *)
(* The room API driven as the unit tests drive it: one call at a time.     *)

TheRoom == 1

CallAddPlayer(p) ==
    /\ task[ConnTask(p)].pc = "new"
    /\ \E rnd \in RandDraws(heap[TheRoom]) :
          LET res == AddPlayer(heap[TheRoom], p, rnd)
          IN /\ heap' = [heap EXCEPT ![TheRoom] = res.room]
             /\ task' = [task EXCEPT ![ConnTask(p)].pc =
                                       IF res.ok THEN "added" ELSE "refused"]
    /\ UNCHANGED <<hubVars, rmu, timerVars, outbox, nframes, applied>>

CallRemovePlayer(p) ==
    /\ \E next \in NextHosts(heap[TheRoom], p) :
          heap' = [heap EXCEPT ![TheRoom] = RemovePlayer(@, p, next)]
    /\ UNCHANGED <<hubVars, rmu, timerVars, task, outbox, nframes, applied>>

CallVote(p, v) ==
    /\ heap' = [heap EXCEPT ![TheRoom] = Vote(@, p, v).room]
    /\ UNCHANGED <<hubVars, rmu, timerVars, task, outbox, nframes, applied>>

CallReveal(p) ==
    /\ heap' = [heap EXCEPT ![TheRoom] = Reveal(@, p).room]
    /\ UNCHANGED <<hubVars, rmu, timerVars, task, outbox, nframes, applied>>

CallReset ==
    /\ heap' = [heap EXCEPT ![TheRoom] = Reset(@)]
    /\ UNCHANGED <<hubVars, rmu, timerVars, task, outbox, nframes, applied>>

CallStartTimer(p, autoReveal) ==
    /\ nextChan < MaxTimers
    /\ LET res == StartTimer(heap[TheRoom], p, autoReveal, nextChan + 1, nextChan + 1)
       IN /\ heap' = [heap EXCEPT ![TheRoom] = res.room]
          /\ nextChan' = IF res.ok THEN nextChan + 1 ELSE nextChan
          /\ chanClosed' = IF res.closes # NilChan
                           THEN chanClosed \cup {res.closes} ELSE chanClosed
    /\ UNCHANGED <<hubVars, rmu, stopped, task, outbox, nframes, applied>>

CallStopTimer(p) ==
    /\ LET res == StopTimer(heap[TheRoom], p)
       IN /\ heap' = [heap EXCEPT ![TheRoom] = res.room]
          /\ chanClosed' = IF res.closes # NilChan
                           THEN chanClosed \cup {res.closes} ELSE chanClosed
          /\ stopped' = IF res.ok THEN stopped \cup Pending ELSE stopped
    /\ UNCHANGED <<hubVars, rmu, nextChan, task, outbox, nframes, applied>>

CallClearTimer ==
    /\ heap' = [heap EXCEPT ![TheRoom] = ClearTimer(@)]
    /\ UNCHANGED <<hubVars, rmu, timerVars, task, outbox, nframes, applied>>

NextRoom ==
    \/ \E p \in ConnIDs : CallAddPlayer(p)
    \/ \E p \in ConnIDs : CallRemovePlayer(p)
    \/ \E p \in ConnIDs, v \in VoteTokens : CallVote(p, v)
    \/ \E p \in ConnIDs : CallReveal(p)
    \/ CallReset
    \/ \E p \in ConnIDs, a \in BOOLEAN : CallStartTimer(p, a)
    \/ \E p \in ConnIDs : CallStopTimer(p)
    \/ CallClearTimer

SpecRoom == Init /\ [][NextRoom]_vars

(* ------------------ handler.WebSocketHandler: sending ------------------ *)

\* Player.SendMessage(msg) on q's connection: the write fails, and nothing
\* is delivered, once the connection is closed.
SendMessage(ob, q, m) ==
    IF task[ConnTask(q)].closed THEN ob ELSE [ob EXCEPT ![q] = Append(@, m)]

\* The locals of task record tr as it goes on to Broadcast(m), or to
\* BroadcastExcept(m, except), and afterwards to next.
ToBroadcast(tr, m, except, next) ==
    [tr EXCEPT !.pc = "bcast_begin", !.msg = m, !.cur = except, !.next = next]

\* The locals of task record tr as it goes on to SendMessage(m) on its own
\* connection, and afterwards to next.
ToSend(tr, m, next) == [tr EXCEPT !.pc = "send", !.msg = m, !.next = next]

\* The locals of task record tr as it goes on to next: what the finished
\* call used is dropped, and back in the read loop (or at its end) every
\* local but the room and the connection is.
Goto(tr, next) ==
    IF next \in {"idle", "done", "cancelled", "gone"}
    THEN [NewTask EXCEPT !.pc = next, !.room = tr.room, !.closed = tr.closed]
    ELSE [tr EXCEPT !.pc = next, !.msg = NoMsg, !.todo = {}, !.cur = NoID,
                    !.next = "", !.to = NoID]

\* Room.Broadcast / Room.BroadcastExcept, entry: RLock is taken and the
\* range over r.Players starts.  The players cannot change while RLock is
\* held, so the range yields exactly the players of this moment.
BroadcastBegin(t) ==
    /\ task[t].pc = "bcast_begin"
    /\ CanRLock(task[t].room)
    /\ LET o == task[t].room
           to == (DOMAIN heap[o].Players) \ {task[t].cur}
       IN IF to = {}
          THEN /\ task' = [task EXCEPT ![t] = Goto(@, task[t].next)]
               /\ UNCHANGED rmu
          ELSE /\ task' = [task EXCEPT ![t].pc = "bcast", ![t].todo = to]
               /\ rmu' = [rmu EXCEPT ![o] = @ \cup {t}]
    /\ UNCHANGED <<heap, hubVars, timerVars, outbox, nframes, applied>>

\* A mutant of BroadcastSend: the range ends at the first write that fails.
BroadcastSendStopsOnError(t, q) ==
    /\ task[t].pc = "bcast"
    /\ q \in task[t].todo
    /\ outbox' = SendMessage(outbox, q, task[t].msg)
    /\ LET left == IF task[ConnTask(q)].closed THEN {} ELSE task[t].todo \ {q}
       IN IF left = {}
          THEN /\ task' = [task EXCEPT ![t] = Goto(@, task[t].next)]
               /\ rmu' = [rmu EXCEPT ![task[t].room] = @ \ {t}]
          ELSE /\ task' = [task EXCEPT ![t].todo = left]
               /\ UNCHANGED rmu
    /\ UNCHANGED <<heap, hubVars, timerVars, nframes, applied>>

\* One iteration of the range: player.SendMessage(msg); after the last one
\* RLock is released.
BroadcastSend(t, q) ==
    /\ task[t].pc = "bcast"
    /\ q \in task[t].todo
    /\ outbox' = SendMessage(outbox, q, task[t].msg)
    /\ LET left == task[t].todo \ {q}
       IN IF left = {}
          THEN /\ task' = [task EXCEPT ![t] = Goto(@, task[t].next)]
               /\ rmu' = [rmu EXCEPT ![task[t].room] = @ \ {t}]
          ELSE /\ task' = [task EXCEPT ![t].todo = left]
               /\ UNCHANGED rmu
    /\ UNCHANGED <<heap, hubVars, timerVars, nframes, applied>>

\* player.SendMessage(msg) to the task's own connection.
SendSelf(p) ==
    /\ task[ConnTask(p)].pc = "send"
    /\ outbox' = SendMessage(outbox, p, task[ConnTask(p)].msg)
    /\ task' = [task EXCEPT ![ConnTask(p)] = Goto(@, task[ConnTask(p)].next)]
    /\ UNCHANGED <<heap, hubVars, rmu, timerVars, nframes, applied>>

(* Player.SendMessage in two steps: p.mu.Lock(), then Conn.WriteJSON with  *)
(* p.mu.Unlock().  The actions above take both in one step; the ones below *)
(* show the write while it is in progress.                                 *)

\* The connections task t's next SendMessage call may be for.
SendTargets(t) ==
    IF task[t].pc = "send" THEN {t[2]}
    ELSE IF task[t].pc = "bcast" THEN task[t].todo
    ELSE IF task[t].pc = "reset_send" THEN {task[t].cur}
    ELSE {}

\* The tasks inside Conn.WriteJSON on connection q.
Writers(q) == {t \in DOMAIN task : task[t].to = q}

\* A mutant of CanLockConn: the send lock is not looked at.
CanLockConnAlways(q) == TRUE

\* Player.mu.Lock() of connection q can be taken: no task holds it.
CanLockConn(q) == Writers(q) = {}

\* SendMessage, entry: p.mu.Lock(); the task is now inside WriteJSON.
SendMessageLock(t, q) ==
    /\ q \in SendTargets(t)
    /\ task[t].to = NoID
    /\ CanLockConn(q)
    /\ task' = [task EXCEPT ![t].to = q]
    /\ UNCHANGED <<heap, hubVars, rmu, timerVars, outbox, nframes, applied>>

\* WriteJSON returns, p.mu.Unlock(), and the caller goes on: the dispatcher
\* to what follows its reply, a broadcast to the next player of its range
\* (or to RUnlock), handleReset to the next player of its range.
SendMessageWrite(t) ==
    /\ task[t].to # NoID
    /\ outbox' = SendMessage(outbox, task[t].to, task[t].msg)
    /\ LET left == task[t].todo \ {task[t].to}
       IN IF task[t].pc = "reset_send"
          THEN /\ task' = [task EXCEPT ![t] = [@ EXCEPT !.pc = "reset_iter", !.msg = NoMsg,
                                                          !.cur = NoID, !.to = NoID]]
               /\ UNCHANGED rmu
          ELSE IF task[t].pc = "bcast" /\ left # {}
          THEN /\ task' = [task EXCEPT ![t] = [@ EXCEPT !.todo = left, !.to = NoID]]
               /\ UNCHANGED rmu
          ELSE /\ task' = [task EXCEPT ![t] = Goto(@, task[t].next)]
               /\ rmu' = [rmu EXCEPT ![task[t].room] = @ \ {t}]
    /\ UNCHANGED <<heap, hubVars, timerVars, nframes, applied>>

\* Room.GetVotingResults() by a task that has revealed; the results go out
\* in a Broadcast.
GetResults(t) ==
    /\ task[t].pc = "results"
    /\ CanRLock(task[t].room)
    /\ task' = [task EXCEPT ![t] =
                  ToBroadcast(@, RevealedMsg(GetVotingResults(heap[task[t].room]),
                                             task[t].op), NoID, task[t].next)]
    /\ UNCHANGED <<heap, hubVars, rmu, timerVars, outbox, nframes, applied>>

(* ------------- handler.WebSocketHandler.HandleConnection -------------- *)

\* Whether Hub.mu.RLock() / Hub.mu.Lock() can be taken.
CanRLockHub == hmu.w = NoTask

CanLockHub == hmu.w = NoTask /\ hmu.r = {}

\* h.Rooms[strings.ToUpper(code)] on the map rooms: nil without an entry.
RoomAt(rooms, code) ==
    IF ToUpper(code) \in DOMAIN rooms THEN rooms[ToUpper(code)] ELSE NilRoom

\* Hub.GetRoom(code)
GetRoom(code) == RoomAt(Rooms, code)

\* The *Player the handler holds: its fields are those of the room's entry
\* while it is in the room.
PlayerObj(o, p) ==
    IF p \in DOMAIN heap[o].Players THEN heap[o].Players[p] ELSE NewPlayer(p, FALSE)

\* HandleConnection up to the upgrade: the room is resolved; 404 if none.
Connect(p, code) ==
    /\ task[ConnTask(p)].pc = "new"
    /\ CanRLockHub
    /\ task' = [task EXCEPT ![ConnTask(p)] =
                  IF GetRoom(code) = NilRoom
                  THEN [@ EXCEPT !.pc = "rejected"]
                  ELSE [@ EXCEPT !.pc = "add", !.room = GetRoom(code)]]
    /\ UNCHANGED <<heap, hubVars, rmu, timerVars, outbox, nframes, applied>>

\* room.AddPlayer(player); its result is not looked at.
Join(p) ==
    /\ task[ConnTask(p)].pc = "add"
    /\ LET o == task[ConnTask(p)].room
       IN /\ CanLock(o)
          /\ \E rnd \in RandDraws(heap[o]) :
                heap' = [heap EXCEPT ![o] = AddPlayer(@, p, rnd).room]
    /\ task' = [task EXCEPT ![ConnTask(p)].pc = "sync_get"]
    /\ UNCHANGED <<hubVars, rmu, timerVars, outbox, nframes, applied>>

\* The values time.Now() allows r.TimerEndTime.After(time.Now()) to take.
TimerLive(r) == IF r.TimerEndTime = NoTime THEN {FALSE} ELSE BOOLEAN

\* sendState(player, room): room.GetState(player.ID); the send follows.
JoinGetState(p) ==
    /\ task[ConnTask(p)].pc = "sync_get"
    /\ CanRLock(task[ConnTask(p)].room)
    /\ \E tl \in TimerLive(heap[task[ConnTask(p)].room]) :
          task' = [task EXCEPT ![ConnTask(p)] =
                     ToSend(@, SyncMsg(GetState(heap[task[ConnTask(p)].room], p, tl)),
                            "join_bc")]
    /\ UNCHANGED <<heap, hubVars, rmu, timerVars, outbox, nframes, applied>>

\* room.BroadcastExcept(player_joined, playerID); then the read loop starts.
JoinNotify(p) ==
    /\ task[ConnTask(p)].pc = "join_bc"
    /\ task' = [task EXCEPT ![ConnTask(p)] =
                  ToBroadcast(@, PlayerJoinMsg(ToModel(PlayerObj(task[ConnTask(p)].room, p),
                                                       FALSE)), p, "idle")]
    /\ UNCHANGED <<heap, hubVars, rmu, timerVars, outbox, nframes, applied>>

(* ------------ handler.WebSocketHandler.processMessage ----------------- *)

\* A frame can be read: the dispatcher is in ReadJSON.
CanRead(p) == task[ConnTask(p)].pc = "idle" /\ nframes < MaxFrames

\* A vote frame: handleVote.
ReadVote(p, v) ==
    /\ CanRead(p)
    /\ LET t == ConnTask(p)
           o == task[t].room
           res == Vote(heap[o], p, v)
       IN /\ CanLock(o)
          /\ heap' = [heap EXCEPT ![o] = res.room]
          /\ applied' = IF res.ok THEN Append(applied, nframes + 1) ELSE applied
          /\ task' = [task EXCEPT ![t] =
                        IF res.ok
                        THEN ToBroadcast([@ EXCEPT !.op = nframes + 1],
                                         VotedMsg(p, v # NoVote, nframes + 1),
                                         NoID, "idle")
                        ELSE @]
    /\ nframes' = nframes + 1
    /\ UNCHANGED <<hubVars, rmu, timerVars, outbox>>

\* A reveal frame: handleReveal up to room.Reveal.
ReadReveal(p) ==
    /\ CanRead(p)
    /\ LET t == ConnTask(p)
           o == task[t].room
           res == Reveal(heap[o], p)
       IN /\ CanLock(o)
          /\ heap' = [heap EXCEPT ![o] = res.room]
          /\ applied' = IF res.ok THEN Append(applied, nframes + 1) ELSE applied
          /\ task' = [task EXCEPT ![t] =
                        IF res.ok
                        THEN [@ EXCEPT !.pc = "results", !.next = "idle",
                                       !.op = nframes + 1]
                        ELSE ToSend([@ EXCEPT !.op = nframes + 1],
                                    ErrorMsg("only the host can reveal votes"),
                                    "idle")]
    /\ nframes' = nframes + 1
    /\ UNCHANGED <<hubVars, rmu, timerVars, outbox>>

\* A reset frame from a player that room.HostID does not name.
ReadResetDenied(p) ==
    /\ CanRead(p)
    /\ p # heap[task[ConnTask(p)].room].HostID
    /\ task' = [task EXCEPT ![ConnTask(p)] =
                  ToSend([@ EXCEPT !.op = nframes + 1],
                         ErrorMsg("only the host can reset"), "idle")]
    /\ nframes' = nframes + 1
    /\ UNCHANGED <<heap, hubVars, rmu, timerVars, outbox, applied>>

\* A reset frame from the host: room.Reset(), then the range over
\* room.Players begins.
ReadReset(p) ==
    /\ CanRead(p)
    /\ LET t == ConnTask(p)
           o == task[t].room
       IN /\ p = heap[o].HostID
          /\ CanLock(o)
          /\ heap' = [heap EXCEPT ![o] = Reset(@)]
          /\ task' = [task EXCEPT ![t] =
                        [@ EXCEPT !.pc = "reset_iter", !.op = nframes + 1,
                                  !.todo = DOMAIN heap[o].Players, !.seen = {}]]
    /\ applied' = Append(applied, nframes + 1)
    /\ nframes' = nframes + 1
    /\ UNCHANGED <<hubVars, rmu, timerVars, outbox>>

\* handleReset's range over room.Players, which holds no lock: the next
\* player it yields, and room.GetState for that player.  A player removed
\* meanwhile is not yielded; one added meanwhile may be.
ResetIter(p, q) ==
    /\ task[ConnTask(p)].pc = "reset_iter"
    /\ LET t == ConnTask(p)
           o == task[t].room
       IN /\ q \in (DOMAIN heap[o].Players) \ task[t].seen
          /\ CanRLock(o)
          /\ \E tl \in TimerLive(heap[o]) :
                task' = [task EXCEPT ![t] =
                           [@ EXCEPT !.pc = "reset_send", !.cur = q,
                                     !.todo = @ \ {q}, !.seen = @ \cup {q},
                                     !.msg = SyncMsg(GetState(heap[o], q, tl))]]
    /\ UNCHANGED <<heap, hubVars, rmu, timerVars, outbox, nframes, applied>>

\* sendState's SendMessage to the player the range is at.
ResetSend(p) ==
    /\ task[ConnTask(p)].pc = "reset_send"
    /\ outbox' = SendMessage(outbox, task[ConnTask(p)].cur, task[ConnTask(p)].msg)
    /\ task' = [task EXCEPT ![ConnTask(p)] =
                  [@ EXCEPT !.pc = "reset_iter", !.msg = NoMsg, !.cur = NoID]]
    /\ UNCHANGED <<heap, hubVars, rmu, timerVars, nframes, applied>>

\* The range ends once every player it started with was yielded or removed.
ResetDone(p) ==
    /\ task[ConnTask(p)].pc = "reset_iter"
    /\ task[ConnTask(p)].todo \cap DOMAIN heap[task[ConnTask(p)].room].Players = {}
    /\ task' = [task EXCEPT ![ConnTask(p)] = Goto(@, "idle")]
    /\ UNCHANGED <<heap, hubVars, rmu, timerVars, outbox, nframes, applied>>

\* The range over room.Players holds no lock.  When its next step runs
\* while task w is inside AddPlayer or RemovePlayer of the same room, the
\* Go runtime may end the process ("fatal error: concurrent map iteration
\* and map write"): every task stops and every connection is lost.
ResetFatal(p, w) ==
    /\ task[ConnTask(p)].pc = "reset_iter"
    /\ w # p
    /\ task[ConnTask(w)].pc \in {"add", "disc"}
    /\ task[ConnTask(w)].room = task[ConnTask(p)].room
    /\ CanLock(task[ConnTask(p)].room)
    /\ task' = [t \in DOMAIN task |-> [task[t] EXCEPT !.pc = "fatal", !.closed = TRUE]]
    /\ UNCHANGED <<heap, hubVars, rmu, timerVars, outbox, nframes, applied>>

\* The timerDuration values a start_timer frame may carry.
Durations == {0, 60, MaxTimerDuration + 1}

\* A mutant of ReadStartTimerInvalid: the refused frame ends the connection.
ReadStartTimerInvalidCloses(p, d) ==
    /\ CanRead(p)
    /\ d <= 0 \/ d > MaxTimerDuration
    /\ task' = [task EXCEPT ![ConnTask(p)] = [@ EXCEPT !.pc = "disc", !.closed = TRUE]]
    /\ nframes' = nframes + 1
    /\ UNCHANGED <<heap, hubVars, rmu, timerVars, outbox, applied>>

\* A start_timer frame whose duration handleStartTimer refuses.
ReadStartTimerInvalid(p, d) ==
    /\ CanRead(p)
    /\ d <= 0 \/ d > MaxTimerDuration
    /\ task' = [task EXCEPT ![ConnTask(p)] =
                  ToSend([@ EXCEPT !.op = nframes + 1],
                         ErrorMsg("invalid timer duration (1-300 seconds)"), "idle")]
    /\ nframes' = nframes + 1
    /\ UNCHANGED <<heap, hubVars, rmu, timerVars, outbox, applied>>

\* A start_timer frame: handleStartTimer up to room.StartTimer.  The k-th
\* successful call makes channel k and deadline k.
ReadStartTimer(p, d, a) ==
    /\ CanRead(p)
    /\ ~(d <= 0 \/ d > MaxTimerDuration)
    /\ nextChan < MaxTimers
    /\ LET t == ConnTask(p)
           o == task[t].room
           res == StartTimer(heap[o], p, a, nextChan + 1, nextChan + 1)
       IN /\ CanLock(o)
          /\ heap' = [heap EXCEPT ![o] = res.room]
          /\ nextChan' = IF res.ok THEN nextChan + 1 ELSE nextChan
          /\ chanClosed' = IF res.closes # NilChan
                           THEN chanClosed \cup {res.closes} ELSE chanClosed
          /\ applied' = IF res.ok THEN Append(applied, nframes + 1) ELSE applied
          /\ task' = [task EXCEPT ![t] =
                        IF res.ok
                        THEN ToBroadcast([@ EXCEPT !.op = nframes + 1,
                                                   !.ch = nextChan + 1,
                                                   !.autoReveal = a],
                                         TimerSyncMsg(nextChan + 1, a), NoID, "spawn")
                        ELSE ToSend([@ EXCEPT !.op = nframes + 1],
                                    ErrorMsg("only the host can start the timer"),
                                    "idle")]
    /\ nframes' = nframes + 1
    /\ UNCHANGED <<hubVars, rmu, stopped, outbox>>

\* go h.handleTimerEnd(room, duration, autoReveal)
SpawnTimer(p) ==
    /\ task[ConnTask(p)].pc = "spawn"
    /\ task' = [task EXCEPT
                  ![ConnTask(p)] = Goto(@, "idle"),
                  ![TimerTask(task[ConnTask(p)].ch)] =
                      [NewTask EXCEPT !.pc = "spawned",
                                      !.room = task[ConnTask(p)].room,
                                      !.autoReveal = task[ConnTask(p)].autoReveal]]
    /\ UNCHANGED <<heap, hubVars, rmu, timerVars, outbox, nframes, applied>>

\* A stop_timer frame: handleStopTimer up to room.StopTimer.
ReadStopTimer(p) ==
    /\ CanRead(p)
    /\ LET t == ConnTask(p)
           o == task[t].room
           res == StopTimer(heap[o], p)
       IN /\ CanLock(o)
          /\ heap' = [heap EXCEPT ![o] = res.room]
          /\ chanClosed' = IF res.closes # NilChan
                           THEN chanClosed \cup {res.closes} ELSE chanClosed
          /\ stopped' = IF res.ok THEN stopped \cup Pending ELSE stopped
          /\ applied' = IF res.ok THEN Append(applied, nframes + 1) ELSE applied
          /\ task' = [task EXCEPT ![t] =
                        IF res.ok
                        THEN ToBroadcast([@ EXCEPT !.op = nframes + 1],
                                         TimerSyncMsg(NoTime, FALSE), NoID, "idle")
                        ELSE ToSend([@ EXCEPT !.op = nframes + 1],
                                    ErrorMsg("only the host can stop the timer"),
                                    "idle")]
    /\ nframes' = nframes + 1
    /\ UNCHANGED <<hubVars, rmu, nextChan, outbox>>

\* A frame of a type processMessage does not know.
ReadUnknown(p) ==
    /\ CanRead(p)
    /\ task' = [task EXCEPT ![ConnTask(p)] =
                  ToSend([@ EXCEPT !.op = nframes + 1],
                         ErrorMsg("unknown message type"), "idle")]
    /\ nframes' = nframes + 1
    /\ UNCHANGED <<heap, hubVars, rmu, timerVars, outbox, applied>>

(* ----------- handler.WebSocketHandler.handleDisconnect ---------------- *)

\* ReadJSON fails (the peer closed, or the frame does not decode): the read
\* loop ends and handleDisconnect starts with player.Conn.Close().
ReadError(p) ==
    /\ task[ConnTask(p)].pc = "idle"
    /\ task' = [task EXCEPT ![ConnTask(p)] = [@ EXCEPT !.pc = "disc", !.closed = TRUE]]
    /\ UNCHANGED <<heap, hubVars, rmu, timerVars, outbox, nframes, applied>>

\* A frame arrives that ReadJSON cannot decode (no JSON, or a field of the
\* wrong type): ReadJSON returns an error, the read loop breaks as for any
\* other error, and handleDisconnect starts with player.Conn.Close().
ReadMalformed(p) ==
    /\ CanRead(p)
    /\ task' = [task EXCEPT ![ConnTask(p)] =
                  [@ EXCEPT !.pc = "disc", !.closed = TRUE, !.op = nframes + 1]]
    /\ nframes' = nframes + 1
    /\ UNCHANGED <<heap, hubVars, rmu, timerVars, outbox, applied>>

\* room.RemovePlayer(player.ID)
Leave(p) ==
    /\ task[ConnTask(p)].pc = "disc"
    /\ LET o == task[ConnTask(p)].room
       IN /\ CanLock(o)
          /\ \E next \in NextHosts(heap[o], p) :
                heap' = [heap EXCEPT ![o] = RemovePlayer(@, p, next)]
    /\ task' = [task EXCEPT ![ConnTask(p)].pc = "disc_bc"]
    /\ UNCHANGED <<hubVars, rmu, timerVars, outbox, nframes, applied>>

\* room.Broadcast(player_left) with newHostId read from room.HostID.
LeaveNotify(p) ==
    /\ task[ConnTask(p)].pc = "disc_bc"
    /\ task' = [task EXCEPT ![ConnTask(p)] =
                  ToBroadcast(@, PlayerLeftMsg(p, heap[task[ConnTask(p)].room].HostID),
                              NoID, "disc_empty")]
    /\ UNCHANGED <<heap, hubVars, rmu, timerVars, outbox, nframes, applied>>

\* The connections whose room.AddPlayer on room o has run so far.
EverJoined(o) ==
    {p \in ConnIDs : /\ task[ConnTask(p)].room = o
                     /\ task[ConnTask(p)].pc \notin {"new", "rejected", "add"}}

\* A deferral as Hub.ScheduleDeleteIfEmpty(code) starts it: the goroutine
\* sleeps.  of is the room whose emptiness scheduled it (the goroutine
\* itself keeps the code only) and joined the connections that had joined
\* that room by then: two records of the code's history, not of its state.
NewDeferral(code, of) ==
    [pc |-> "sleep", code |-> code, of |-> of, joined |-> EverJoined(of),
     room |-> NilRoom, empty |-> FALSE]

\* if room.IsEmpty() { h.hub.ScheduleDeleteIfEmpty(room.Code) }
LeaveSchedule(p) ==
    /\ task[ConnTask(p)].pc = "disc_empty"
    /\ CanRLock(task[ConnTask(p)].room)
    /\ defers' = IF IsEmpty(heap[task[ConnTask(p)].room])
                 THEN Append(defers, NewDeferral(heap[task[ConnTask(p)].room].Code,
                                                 task[ConnTask(p)].room))
                 ELSE defers
    /\ task' = [task EXCEPT ![ConnTask(p)] = Goto(@, "gone")]
    /\ UNCHANGED <<heap, nextRef, Rooms, hmu, sweep, stats, deleted, created, rmu, timerVars,
                   outbox, nframes, applied>>

(* ------------- handler.WebSocketHandler.handleTimerEnd ---------------- *)

\* timer := time.NewTimer(..); cancelChan := room.GetTimerCancel()
TimerArm(k) ==
    /\ task[TimerTask(k)].pc = "spawned"
    /\ CanRLock(task[TimerTask(k)].room)
    /\ task' = [task EXCEPT ![TimerTask(k)] =
                  [@ EXCEPT !.pc = "wait",
                            !.ch = GetTimerCancel(heap[task[TimerTask(k)].room])]]
    /\ UNCHANGED <<heap, hubVars, rmu, timerVars, outbox, nframes, applied>>

\* The select takes <-timer.C: the deadline comes while cancelChan is not
\* closed (a nil cancelChan is never ready).
TimerExpire(k) ==
    /\ task[TimerTask(k)].pc = "wait"
    /\ task[TimerTask(k)].ch \notin chanClosed
    /\ task' = [task EXCEPT ![TimerTask(k)].pc = "expired"]
    /\ UNCHANGED <<heap, hubVars, rmu, timerVars, outbox, nframes, applied>>

\* The select takes <-cancelChan: the channel is closed.
TimerCancelled(k) ==
    /\ task[TimerTask(k)].pc = "wait"
    /\ task[TimerTask(k)].ch \in chanClosed
    /\ task' = [task EXCEPT ![TimerTask(k)] = Goto(@, "cancelled")]
    /\ UNCHANGED <<heap, hubVars, rmu, timerVars, outbox, nframes, applied>>

\* room.ClearTimer(), then Broadcast(timer_end).
TimerClear(k) ==
    /\ task[TimerTask(k)].pc = "expired"
    /\ CanLock(task[TimerTask(k)].room)
    /\ heap' = [heap EXCEPT ![task[TimerTask(k)].room] = ClearTimer(@)]
    /\ task' = [task EXCEPT ![TimerTask(k)] = ToBroadcast(@, TimerEndMsg, NoID, "auto")]
    /\ UNCHANGED <<hubVars, rmu, timerVars, outbox, nframes, applied>>

\* if autoReveal && !room.Revealed: room.Revealed is read without the
\* room's lock.
TimerAutoCheck(k) ==
    /\ task[TimerTask(k)].pc = "auto"
    /\ task' = [task EXCEPT ![TimerTask(k)] =
                  IF task[TimerTask(k)].autoReveal /\ ~heap[task[TimerTask(k)].room].Revealed
                  THEN [@ EXCEPT !.pc = "reveal"]
                  ELSE Goto(@, "done")]
    /\ UNCHANGED <<heap, hubVars, rmu, timerVars, outbox, nframes, applied>>

\* room.Revealed = true, written without the room's lock; GetVotingResults
\* and the Broadcast follow.
TimerAutoReveal(k) ==
    /\ task[TimerTask(k)].pc = "reveal"
    /\ heap' = [heap EXCEPT ![task[TimerTask(k)].room].Revealed = TRUE]
    /\ task' = [task EXCEPT ![TimerTask(k)] =
                  [@ EXCEPT !.pc = "results", !.next = "done"]]
    /\ UNCHANGED <<hubVars, rmu, timerVars, outbox, nframes, applied>>

(* ------------------------- waiting for Room.mu ------------------------- *)

\* A mutant of AboutToLock: a Room method that takes r.mu.Lock() is also
\* called from inside the range of a broadcast, with RLock held.
AboutToLockInRange(t) ==
    \/ task[t].pc \in {"add", "disc", "expired", "bcast"}
    \/ t \in ConnTasks /\ task[t].pc = "idle" /\ nframes < MaxFrames

\* Task t's next step calls a Room method that takes r.mu.Lock(): AddPlayer,
\* RemovePlayer, ClearTimer, or the method of a frame just read.
AboutToLock(t) ==
    \/ task[t].pc \in {"add", "disc", "expired"}
    \/ t \in ConnTasks /\ task[t].pc = "idle" /\ nframes < MaxFrames

\* r.mu.Lock() is called while readers hold the lock: the call blocks, and
\* from now on RLock() blocks too.
LockWait(t) ==
    /\ AboutToLock(t)
    /\ ~CanLock(task[t].room)
    /\ task' = [task EXCEPT ![t].pc = "lock_wait", ![t].next = task[t].pc]
    /\ UNCHANGED <<heap, hubVars, rmu, timerVars, outbox, nframes, applied>>

\* The last reader has left: the blocked Lock() goes on.
LockResume(t) ==
    /\ task[t].pc = "lock_wait"
    /\ CanLock(task[t].room)
    /\ task' = [task EXCEPT ![t].pc = task[t].next, ![t].next = ""]
    /\ UNCHANGED <<heap, hubVars, rmu, timerVars, outbox, nframes, applied>>

(* ------------------------------ game.Hub ------------------------------- *)

DeferTask(i) == <<"defer", i>>

SweepTask == <<"sweep", 0>>

StatsTask == <<"stats", 0>>

\* What hex.EncodeToString(bytes) may give generateRoomCode: lower-case
\* hexadecimal strings.
RawCodes == {<<"a", "b">>, <<"c", "d">>, <<"e", "f">>}

\* The codes generateRoomCode may return.
Codes == {ToUpper(raw) : raw \in RawCodes}

\* A mutant of CodeFree: every code passes.
CodeFreeAlways(rooms, code) == TRUE

\* generateRoomCode's test of a code: if _, exists := h.Rooms[code]; !exists
CodeFree(rooms, code) == code \notin DOMAIN rooms

\* Hub.generateRoomCode: raw is the draw on which its loop ends, that is,
\* one whose upper-cased string passes the test.
generateRoomCode(raw) == ToUpper(raw)

\* A mutant of CreateRoom: the ceiling is not looked at.
CreateRoomNoCeiling(rooms, raw, ref) ==
    [room |-> ref, Rooms |-> MapPut(rooms, generateRoomCode(raw), ref)]

\* Hub.CreateRoom, the body of CreateRoomWithScale under h.mu.Lock(): what
\* it returns and h.Rooms after it; ref is the *Room NewRoomWithScale makes.
CreateRoom(rooms, raw, ref) ==
    IF Cardinality(DOMAIN rooms) >= MaxRooms
    THEN [room |-> NilRoom, Rooms |-> rooms]
    ELSE [room |-> ref, Rooms |-> MapPut(rooms, generateRoomCode(raw), ref)]

\* Hub.CreateRoomWithScale: a call, from h.mu.Lock() to the return.
CreateRoomWithScale(raw) ==
    /\ CanLockHub
    /\ nextRef < MaxRoomRefs
    /\ LET res == CreateRoom(Rooms, raw, nextRef + 1)
       IN /\ res.room # NilRoom => CodeFree(Rooms, generateRoomCode(raw))
          /\ created' = res.room
          /\ Rooms' = res.Rooms
          /\ nextRef' = IF res.room # NilRoom THEN nextRef + 1 ELSE nextRef
          /\ heap' = IF res.room # NilRoom
                     THEN [heap EXCEPT ![res.room] =
                             NewRoomWithScale(generateRoomCode(raw))]
                     ELSE heap
    /\ UNCHANGED <<hmu, defers, sweep, stats, deleted, rmu, timerVars, task, outbox,
                   nframes, applied>>

\* DeleteRoom's delete(h.Rooms, code) on the map rooms: the code is used as
\* it is given.
RoomsWithout(rooms, code) == MapDelete(rooms, code)

\* Hub.DeleteRoom(code), under h.mu.Lock().
DeleteRoom(code) ==
    /\ CanLockHub
    /\ Rooms' = RoomsWithout(Rooms, code)
    /\ deleted' = IF code \in DOMAIN Rooms
                  THEN [deleted EXCEPT ![Rooms[code]] = @ + 1] ELSE deleted
    /\ UNCHANGED <<heap, nextRef, hmu, defers, sweep, stats, created, rmu, timerVars, task,
                   outbox, nframes, applied>>

\* ScheduleDeleteIfEmpty's goroutine: the sleep is over, h.mu.Lock() is
\* taken and h.Rooms[code] is looked up; without an entry the goroutine
\* unlocks and ends.
DeferWake(i) ==
    /\ i \in DOMAIN defers
    /\ defers[i].pc = "sleep"
    /\ CanLockHub
    /\ IF defers[i].code \in DOMAIN Rooms
       THEN /\ defers' = [defers EXCEPT ![i].pc = "isempty",
                                        ![i].room = Rooms[defers[i].code]]
            /\ hmu' = [hmu EXCEPT !.w = DeferTask(i)]
       ELSE /\ defers' = [defers EXCEPT ![i].pc = "done"]
            /\ UNCHANGED hmu
    /\ UNCHANGED <<heap, nextRef, Rooms, sweep, stats, deleted, created, rmu, timerVars, task,
                   outbox, nframes, applied>>

\* room.IsEmpty() is entered with h.mu held: r.mu.RLock().
DeferIsEmptyLock(i) ==
    /\ i \in DOMAIN defers
    /\ defers[i].pc = "isempty"
    /\ CanRLock(defers[i].room)
    /\ defers' = [defers EXCEPT ![i].pc = "isempty_read"]
    /\ rmu' = [rmu EXCEPT ![defers[i].room] = @ \cup {DeferTask(i)}]
    /\ UNCHANGED <<heap, nextRef, Rooms, hmu, sweep, stats, deleted, created, timerVars, task,
                   outbox, nframes, applied>>

\* room.IsEmpty() returns: len(r.Players) == 0 is read, r.mu.RUnlock().
DeferIsEmptyRead(i) ==
    /\ i \in DOMAIN defers
    /\ defers[i].pc = "isempty_read"
    /\ defers' = [defers EXCEPT ![i].pc = "decide",
                                ![i].empty = IsEmpty(heap[defers[i].room])]
    /\ rmu' = [rmu EXCEPT ![defers[i].room] = @ \ {DeferTask(i)}]
    /\ UNCHANGED <<heap, nextRef, Rooms, hmu, sweep, stats, deleted, created, timerVars, task,
                   outbox, nframes, applied>>

\* if exists && room.IsEmpty() { delete(h.Rooms, code) }; h.mu.Unlock().
DeferDelete(i) ==
    /\ i \in DOMAIN defers
    /\ defers[i].pc = "decide"
    /\ defers' = [defers EXCEPT ![i].pc = "done"]
    /\ hmu' = [hmu EXCEPT !.w = NoTask]
    /\ Rooms' = IF defers[i].empty THEN MapDelete(Rooms, defers[i].code) ELSE Rooms
    /\ deleted' = IF defers[i].empty
                  THEN [deleted EXCEPT ![defers[i].room] = @ + 1] ELSE deleted
    /\ UNCHANGED <<heap, nextRef, sweep, stats, created, rmu, timerVars, task, outbox, nframes,
                   applied>>

\* Time passes: more than ExpiryHours have gone by since room o was last
\* touched, so that time.Since(r.LastActive) > ExpiryHours holds from now
\* until the room is touched again.
Expire(o) ==
    /\ o \in 1..nextRef
    /\ heap[o].LastActive = Fresh
    /\ heap' = [heap EXCEPT ![o].LastActive = Stale]
    /\ UNCHANGED <<hubVars, rmu, timerVars, task, outbox, nframes, applied>>

\* cleanupRoutine: the ticker fires; cleanup() takes h.mu.Lock() and starts
\* its range over h.Rooms.
SweepTick ==
    /\ sweep.pc = "idle"
    /\ sweep.n < MaxSweeps
    /\ CanLockHub
    /\ hmu' = [hmu EXCEPT !.w = SweepTask]
    /\ sweep' = [pc |-> "range", todo |-> DOMAIN Rooms, cur |-> <<>>, n |-> sweep.n + 1]
    /\ UNCHANGED <<heap, nextRef, Rooms, defers, stats, deleted, created, rmu, timerVars, task,
                   outbox, nframes, applied>>

\* The range yields a room; room.IsEmpty() is entered: r.mu.RLock().
SweepNext(code) ==
    /\ sweep.pc = "range"
    /\ code \in sweep.todo
    /\ CanRLock(Rooms[code])
    /\ sweep' = [sweep EXCEPT !.pc = "isempty", !.cur = code, !.todo = @ \ {code}]
    /\ rmu' = [rmu EXCEPT ![Rooms[code]] = @ \cup {SweepTask}]
    /\ UNCHANGED <<heap, nextRef, Rooms, hmu, defers, stats, deleted, created, timerVars, task,
                   outbox, nframes, applied>>

\* room.IsEmpty() returns; an empty room is deleted without IsExpired
\* being called.
SweepIsEmpty ==
    /\ sweep.pc = "isempty"
    /\ sweep' = [sweep EXCEPT !.pc = IF IsEmpty(heap[Rooms[sweep.cur]])
                                      THEN "delete" ELSE "isexpired"]
    /\ rmu' = [rmu EXCEPT ![Rooms[sweep.cur]] = @ \ {SweepTask}]
    /\ UNCHANGED <<heap, nextRef, Rooms, hmu, defers, stats, deleted, created, timerVars, task,
                   outbox, nframes, applied>>

\* room.IsExpired()
SweepIsExpired ==
    /\ sweep.pc = "isexpired"
    /\ CanRLock(Rooms[sweep.cur])
    /\ sweep' = [sweep EXCEPT !.pc = IF IsExpired(heap[Rooms[sweep.cur]])
                                      THEN "delete" ELSE "range"]
    /\ UNCHANGED <<heap, nextRef, Rooms, hmu, defers, stats, deleted, created, rmu, timerVars,
                   task, outbox, nframes, applied>>

\* delete(h.Rooms, code); the log line's calls of IsEmpty and IsExpired
\* change nothing.
SweepDelete ==
    /\ sweep.pc = "delete"
    /\ sweep' = [sweep EXCEPT !.pc = "range"]
    /\ Rooms' = MapDelete(Rooms, sweep.cur)
    /\ deleted' = [deleted EXCEPT ![Rooms[sweep.cur]] = @ + 1]
    /\ UNCHANGED <<heap, nextRef, hmu, defers, stats, created, rmu, timerVars, task, outbox,
                   nframes, applied>>

\* The range is over: h.mu.Unlock().
SweepEnd ==
    /\ sweep.pc = "range"
    /\ sweep.todo = {}
    /\ sweep' = [sweep EXCEPT !.pc = "idle", !.cur = <<>>]
    /\ hmu' = [hmu EXCEPT !.w = NoTask]
    /\ UNCHANGED <<heap, nextRef, Rooms, defers, stats, deleted, created, rmu, timerVars, task,
                   outbox, nframes, applied>>

\* Hub.Stats: h.mu.RLock() and the range over h.Rooms starts.
StatsBegin ==
    /\ stats.pc = "idle"
    /\ stats.n < MaxStats
    /\ CanRLockHub
    /\ hmu' = [hmu EXCEPT !.r = @ \cup {StatsTask}]
    /\ stats' = [pc |-> "range", todo |-> DOMAIN Rooms, cur |-> <<>>,
                 n |-> stats.n + 1, players |-> 0]
    /\ UNCHANGED <<heap, nextRef, Rooms, defers, sweep, deleted, created, rmu, timerVars, task,
                   outbox, nframes, applied>>

\* The range yields a room; room.PlayerCount() is entered: r.mu.RLock().
StatsNext(code) ==
    /\ stats.pc = "range"
    /\ code \in stats.todo
    /\ CanRLock(Rooms[code])
    /\ stats' = [stats EXCEPT !.pc = "count", !.cur = code, !.todo = @ \ {code}]
    /\ rmu' = [rmu EXCEPT ![Rooms[code]] = @ \cup {StatsTask}]
    /\ UNCHANGED <<heap, nextRef, Rooms, hmu, defers, sweep, deleted, created, timerVars, task,
                   outbox, nframes, applied>>

\* room.PlayerCount() returns and is added to totalPlayers.
StatsCount ==
    /\ stats.pc = "count"
    /\ stats' = [stats EXCEPT !.pc = "range",
                              !.players = @ + PlayerCount(heap[Rooms[stats.cur]])]
    /\ rmu' = [rmu EXCEPT ![Rooms[stats.cur]] = @ \ {StatsTask}]
    /\ UNCHANGED <<heap, nextRef, Rooms, hmu, defers, sweep, deleted, created, timerVars, task,
                   outbox, nframes, applied>>

\* The range is over: the totals are returned, h.mu.RUnlock().
StatsEnd ==
    /\ stats.pc = "range"
    /\ stats.todo = {}
    /\ stats' = [stats EXCEPT !.pc = "idle", !.cur = <<>>, !.players = 0]
    /\ hmu' = [hmu EXCEPT !.r = @ \ {StatsTask}]
    /\ UNCHANGED <<heap, nextRef, Rooms, defers, sweep, deleted, created, rmu, timerVars, task,
                   outbox, nframes, applied>>

(* ------------------------- the dispatcher's steps ---------------------- *)

Sending ==
    \/ \E t \in ConnTasks \cup TimerTasks : BroadcastBegin(t)
    \/ \E t \in ConnTasks \cup TimerTasks, q \in ConnIDs : BroadcastSend(t, q)
    \/ \E p \in ConnIDs : SendSelf(p)

Joining ==
    \/ \E p \in PlayerIDs : Connect(p, Lobby)
    \/ \E p \in PlayerIDs : Join(p)
    \/ \E p \in PlayerIDs : JoinGetState(p)
    \/ \E p \in PlayerIDs : JoinNotify(p)

Leaving ==
    \/ \E p \in PlayerIDs : ReadError(p)
    \/ \E p \in PlayerIDs : Leave(p)
    \/ \E p \in PlayerIDs : LeaveNotify(p)
    \/ \E p \in PlayerIDs : LeaveSchedule(p)

\* The votes the frames of the model carry.
Ballots == {NoVote, Tok5, TokUnknown}

Voting ==
    \/ \E p \in PlayerIDs, v \in Ballots : ReadVote(p, v)
    \/ \E p \in PlayerIDs : ReadReveal(p)
    \/ \E t \in ConnTasks \cup TimerTasks : GetResults(t)

Resetting ==
    \/ \E p \in PlayerIDs : ReadResetDenied(p)
    \/ \E p \in PlayerIDs : ReadReset(p)
    \/ \E p, q \in PlayerIDs : ResetIter(p, q)
    \/ \E p \in PlayerIDs : ResetSend(p)
    \/ \E p \in PlayerIDs : ResetDone(p)

Timing ==
    \/ \E p \in PlayerIDs, d \in Durations : ReadStartTimerInvalid(p, d)
    \/ \E p \in PlayerIDs, d \in Durations, a \in BOOLEAN : ReadStartTimer(p, d, a)
    \/ \E p \in PlayerIDs : SpawnTimer(p)
    \/ \E p \in PlayerIDs : ReadStopTimer(p)
    \/ \E k \in 1..MaxTimers : TimerArm(k)
    \/ \E k \in 1..MaxTimers : TimerExpire(k)
    \/ \E k \in 1..MaxTimers : TimerCancelled(k)
    \/ \E k \in 1..MaxTimers : TimerClear(k)
    \/ \E k \in 1..MaxTimers : TimerAutoCheck(k)
    \/ \E k \in 1..MaxTimers : TimerAutoReveal(k)

Creating == \E raw \in RawCodes : CreateRoomWithScale(raw)

\* The code strings a caller may pass to GetRoom and DeleteRoom.
CodeInputs == Codes \cup RawCodes

Removing == \E code \in CodeInputs : DeleteRoom(code)

Deferring ==
    \/ \E i \in 1..NumPlayers : DeferWake(i)
    \/ \E i \in 1..NumPlayers : DeferIsEmptyLock(i)
    \/ \E i \in 1..NumPlayers : DeferIsEmptyRead(i)
    \/ \E i \in 1..NumPlayers : DeferDelete(i)

Sweeping ==
    \/ SweepTick
    \/ \E code \in Codes : SweepNext(code)
    \/ SweepIsEmpty
    \/ SweepIsExpired
    \/ SweepDelete
    \/ SweepEnd

Ageing == \E o \in RoomRefs : Expire(o)

Counting ==
    \/ StatsBegin
    \/ \E code \in Codes : StatsNext(code)
    \/ StatsCount
    \/ StatsEnd

Locking ==
    \/ \E t \in ConnTasks \cup TimerTasks : LockWait(t)
    \/ \E t \in ConnTasks \cup TimerTasks : LockResume(t)

\* One room and its connections as they come and go.
NextJoin == Sending \/ Joining \/ Leaving

SpecJoin == Init /\ [][NextJoin]_vars

\* The registry's background tasks on the lobby room, and the connections
\* as they come and go.
NextHub ==
    Sending \/ Joining \/ Leaving \/ Deferring \/ Sweeping \/ Ageing \/ Counting

SpecHub == Init /\ [][NextHub]_vars

\* The registry as rooms are created, removed and swept while connections
\* join the lobby room.
NextRegistry == Sending \/ Joining \/ Creating \/ Removing \/ Sweeping

SpecRegistry == Init /\ [][NextRegistry]_vars

(* ------------------------- the room with its players seated ------------ *)

RECURSIVE SeatedRoom(_)
\* The lobby room after players 1..n have joined it, one after the other.
SeatedRoom(n) ==
    IF n = 0 THEN NewRoomWithScale(Lobby)
    ELSE AddPlayer(SeatedRoom(n - 1), n, <<1, 0>>).room

\* What player p has been sent by then: its own room_state, and a
\* player_joined for every later joiner.
SeatedOutbox(p) ==
    <<SyncMsg(GetState(SeatedRoom(p), p, FALSE))>> \o
    [i \in 1..(NumPlayers - p) |->
        PlayerJoinMsg(ToModel(SeatedRoom(p + i).Players[p + i], FALSE))]

\* The state in which every connection has joined the lobby room, in the
\* order of the ids, and is in its read loop; no frame has been read.  The
\* joining steps reach it from Init.
Seated ==
    /\ heap = [o \in RoomRefs |->
                 IF o = 1 THEN SeatedRoom(NumPlayers) ELSE NewRoomWithScale(<<>>)]
    /\ nextRef = 1
    /\ Rooms = [c \in {Lobby} |-> 1]
    /\ hmu = [w |-> NoTask, r |-> {}]
    /\ rmu = [o \in RoomRefs |-> {}]
    /\ chanClosed = {}
    /\ nextChan = 0
    /\ stopped = {}
    /\ task = [t \in ConnTasks \cup TimerTasks |->
                 IF t \in {ConnTask(p) : p \in PlayerIDs}
                 THEN [NewTask EXCEPT !.pc = "idle", !.room = 1]
                 ELSE NewTask]
    /\ outbox = [p \in ConnIDs |-> IF p \in PlayerIDs THEN SeatedOutbox(p) ELSE <<>>]
    /\ nframes = 0
    /\ applied = <<>>
    /\ defers = <<>>
    /\ sweep = [pc |-> "idle", todo |-> {}, cur |-> <<>>, n |-> 0]
    /\ stats = [pc |-> "idle", todo |-> {}, cur |-> <<>>, n |-> 0, players |-> 0]
    /\ deleted = [o \in RoomRefs |-> 0]
    /\ created = 1

\* The seated room: votes, reveals and disconnects.
NextVoting == Sending \/ Leaving \/ Voting

SpecVoting == Seated /\ [][NextVoting]_vars

\* The seated room, its frames and its timer.
NextTimer == Sending \/ Voting \/ Resetting \/ Timing

SpecTimer == Seated /\ [][NextTimer]_vars

\* The registry with its sweep while connections join, vote for one token
\* and wait for the room's lock.
NextStall ==
    \/ Sending \/ Joining \/ Locking \/ Sweeping
    \/ CreateRoomWithScale(<<"c", "d">>)
    \/ \E p \in PlayerIDs : ReadVote(p, Tok5)

SpecStall == Init /\ [][NextStall]_vars

\* The latecomer's connection, from its arrival to its disconnect.
LateJoining ==
    \/ Connect(Latecomer, Lobby)
    \/ Join(Latecomer)
    \/ JoinGetState(Latecomer)
    \/ JoinNotify(Latecomer)

LateFrames ==
    \/ \E v \in Ballots : ReadVote(Latecomer, v)
    \/ ReadReveal(Latecomer)

LateLeaving ==
    \/ ReadError(Latecomer)
    \/ Leave(Latecomer)
    \/ LeaveNotify(Latecomer)
    \/ LeaveSchedule(Latecomer)

\* The seated, full room, and one more connection that comes to it.
NextCapacity == Sending \/ Voting \/ LateJoining \/ LateFrames \/ LateLeaving

SpecCapacity == Seated /\ [][NextCapacity]_vars

\* The seated room and vote frames with any token.
NextBallot ==
    \/ \E t \in ConnTasks : BroadcastBegin(t)
    \/ \E t \in ConnTasks, q \in ConnIDs : BroadcastSend(t, q)
    \/ \E p \in PlayerIDs, v \in VoteTokens : ReadVote(p, v)

SpecBallot == Seated /\ [][NextBallot]_vars

\* The seated room: resets and disconnects.
NextReset ==
    \/ Sending \/ Resetting \/ Leaving
    \/ \E p, w \in PlayerIDs : ResetFatal(p, w)

SpecReset == Seated /\ [][NextReset]_vars

\* The seated room and frames the dispatcher cannot handle, among votes.
NextDecode ==
    \/ Sending \/ Leaving
    \/ \E p \in PlayerIDs : ReadUnknown(p)
    \/ \E p \in PlayerIDs : ReadMalformed(p)
    \/ \E p \in PlayerIDs : ReadVote(p, Tok5)

SpecDecode == Seated /\ [][NextDecode]_vars

\* The seated room as its participants disconnect and one more connection
\* comes to it.
NextChurn == Sending \/ Leaving \/ LateJoining

SpecChurn == Seated /\ [][NextChurn]_vars

\* Every write in its two steps.
Writing ==
    \/ \E t \in ConnTasks \cup TimerTasks : BroadcastBegin(t)
    \/ \E t \in ConnTasks \cup TimerTasks, q \in ConnIDs : SendMessageLock(t, q)
    \/ \E t \in ConnTasks \cup TimerTasks : SendMessageWrite(t)

\* The seated room with writes in progress: votes, reveals, resets and a
\* countdown that expires.
NextWrite ==
    \/ Writing
    \/ \E p \in PlayerIDs : ReadVote(p, Tok5)
    \/ \E p \in PlayerIDs : ReadReveal(p)
    \/ \E t \in ConnTasks \cup TimerTasks : GetResults(t)
    \/ \E p \in PlayerIDs : ReadResetDenied(p)
    \/ \E p \in PlayerIDs : ReadReset(p)
    \/ \E p, q \in PlayerIDs : ResetIter(p, q)
    \/ \E p \in PlayerIDs : ResetDone(p)
    \/ \E p \in PlayerIDs, a \in BOOLEAN : ReadStartTimer(p, 60, a)
    \/ \E p \in PlayerIDs : SpawnTimer(p)
    \/ \E k \in 1..MaxTimers : TimerArm(k)
    \/ \E k \in 1..MaxTimers : TimerExpire(k)
    \/ \E k \in 1..MaxTimers : TimerCancelled(k)
    \/ \E k \in 1..MaxTimers : TimerClear(k)
    \/ \E k \in 1..MaxTimers : TimerAutoCheck(k)
    \/ \E k \in 1..MaxTimers : TimerAutoReveal(k)

SpecWrite == Seated /\ [][NextWrite]_vars

(* ------------------------------ properties ----------------------------- *)

\* C1: after any sequence of AddPlayer and RemovePlayer calls (players made
\* with isHost = false and distinct ids), a room that is not empty has
\* exactly one participant with IsHost = true, and Room.HostID is the id of
\* that participant.
HostUnique ==
    LET r == heap[TheRoom]
        hosts == {q \in DOMAIN r.Players : r.Players[q].IsHost}
    IN DOMAIN r.Players # {} =>
          /\ Cardinality(hosts) = 1
          /\ hosts = {r.HostID}

\* C1's case: the first joiner, who was host, has been removed and the
\* player who stayed has been promoted.
HostPromoted ==
    /\ task[ConnTask(1)].pc = "added"
    /\ DOMAIN heap[TheRoom].Players = {2}
    /\ heap[TheRoom].HostID = 2
    /\ heap[TheRoom].Players[2].IsHost

\* C3: in every reachable room state with revealed = false, the snapshot
\* GetState makes for any viewer reports hasVoted for every participant
\* and holds the vote token of no participant other than the viewer.
VotesRedacted ==
    LET r == heap[TheRoom] IN
    ~r.Revealed =>
       \A viewer \in PlayerIDs, tl \in TimerLive(r) :
          LET st == GetState(r, viewer, tl) IN
          /\ {pm.ID : pm \in st.Players} = DOMAIN r.Players
          /\ \A pm \in st.Players :
                /\ pm.HasVoted = r.Players[pm.ID].HasVoted
                /\ pm.ID # viewer => pm.Vote = NoVote

\* C3's case: a hidden round in which player 2 has voted, seen by player 1.
HiddenVoteSeen ==
    LET r == heap[TheRoom] IN
    /\ ~r.Revealed
    /\ DOMAIN r.Players = {1, 2}
    /\ r.Players[2].Vote = Tok5
    /\ \E pm \in GetState(r, 1, FALSE).Players : pm.ID = 2 /\ pm.HasVoted

\* handleReveal's reply to a participant who is not the host.
RevealDenied == ErrorMsg("only the host can reveal votes")

\* C2: a reveal frame from a participant who is not the current host makes
\* Reveal return false and changes no field of any room and no outbox; what
\* the requester's handler does next is to write one error frame to the
\* requester alone and to return to its read loop.
NonHostRevealRefused ==
    [][\A p \in PlayerIDs :
          LET t == ConnTask(p) IN
          /\ (ReadReveal(p) /\ heap[task[t].room].HostID # p) =>
                /\ ~Reveal(heap[task[t].room], p).ok
                /\ heap' = heap
                /\ outbox' = outbox
                /\ task'[t].pc = "send"
                /\ task'[t].msg = RevealDenied
                /\ task'[t].next = "idle"
          /\ (task[t].pc = "send" /\ task[t].msg = RevealDenied
                /\ task'[t] # task[t]) =>
                /\ heap' = heap
                /\ outbox' = [outbox EXCEPT ![p] = Append(@, RevealDenied)]
                /\ task'[t].pc = "idle"]_vars

\* C2's case: player 2, in the room and not its host, has been sent the
\* error frame and is back in its read loop; the round is still hidden.
RevealRefusedSeen ==
    /\ heap[1].HostID = 1
    /\ 2 \in DOMAIN heap[1].Players
    /\ ~heap[1].Revealed
    /\ task[ConnTask(2)].pc = "idle"
    /\ \E i \in DOMAIN outbox[2] : outbox[2][i] = RevealDenied

\* The frames whose broadcasts p has been written, in the order written.
OpsSeen(p) ==
    LET idx == {i \in DOMAIN outbox[p] : outbox[p][i].op # 0}
        Nth[n \in 0..Len(outbox[p])] ==
            IF n = 0 THEN <<>>
            ELSE IF n \in idx THEN Append(Nth[n - 1], outbox[p][n].op)
                 ELSE Nth[n - 1]
    IN Nth[Len(outbox[p])]

\* Frame a was applied to the room before frame b.
AppliedBefore(a, b) ==
    \E i, j \in DOMAIN applied : i < j /\ applied[i] = a /\ applied[j] = b

\* C9 as the specification states it: when two state-changing commands
\* (two votes, or a vote and a reveal) are applied in some order, every
\* participant is written the two resulting broadcasts in that order.
BroadcastsInAppliedOrder ==
    \A p \in PlayerIDs :
       \A i, j \in DOMAIN OpsSeen(p) :
          i < j => ~AppliedBefore(OpsSeen(p)[j], OpsSeen(p)[i])

\* C4 as the specification states it: every revealed-results message that
\* is broadcast was computed while the room's revealed flag was true, so it
\* carries revealed = true.
ResultsCarryRevealed ==
    \A p \in PlayerIDs :
       \A i \in DOMAIN outbox[p] :
          outbox[p][i].type = "revealed" => outbox[p][i].revealed

\* The countdowns that are live: their task waits in its select on a
\* cancellation channel that is not closed (nil included).
LiveCountdowns ==
    {k \in 1..MaxTimers : /\ task[TimerTask(k)].pc = "wait"
                          /\ task[TimerTask(k)].ch \notin chanClosed}

\* C5 as the specification states it: a second StartTimer cancels the first
\* countdown, so at most one countdown is live at any time.
OneCountdownLive == Cardinality(LiveCountdowns) <= 1

\* C6 as the specification states it: a countdown that was pending at a
\* successful StopTimer is cancelled: its task never takes the deadline
\* branch, so it broadcasts no timer-ended event and reveals nothing.
StoppedNeverExpires ==
    \A k \in stopped : task[TimerTask(k)].pc \in {"spawned", "wait", "cancelled"}

\* The messages of the given type among the first n written to p by a task
\* that handles no client frame.
TimerMsgs(p, type, n) ==
    Cardinality({i \in 1..n : outbox[p][i].type = type /\ outbox[p][i].op = 0})

LastDeferral(o) ==
    LET S == {i \in DOMAIN defers : defers[i].of = o}
    IN IF S = {} THEN 0 ELSE CHOOSE i \in S : \A j \in S : j <= i

\* Room o is in Hub.Rooms.
Registered(o) == \E c \in DOMAIN Rooms : Rooms[c] = o

\* C8 as the specification states it: a room that became empty and has
\* gained a participant while the grace period of its last emptiness is
\* still running is in the registry, and no room is removed from the
\* registry more than once.
GraceSurvival ==
    \A o \in 1..nextRef :
       /\ (/\ LastDeferral(o) # 0
           /\ defers[LastDeferral(o)].pc = "sleep"
           /\ ~IsEmpty(heap[o])) => Registered(o)
       /\ deleted[o] <= 1

\* C10 as the specification states it: no task is inside a Room method,
\* holding that room's lock, while it holds the registry lock.
NoRoomCallUnderHubLock ==
    \A o \in RoomRefs : \A t \in rmu[o] : hmu.w # t /\ t \notin hmu.r

\* Room o's lock is read-held by a broadcast that is inside a write to a
\* connection which is still open.
BroadcastInWrite(o) ==
    \E t \in rmu[o] \cap DOMAIN task :
       /\ task[t].pc = "bcast"
       /\ \E q \in task[t].todo : ~task[ConnTask(q)].closed

\* The holder of the registry lock still has to take room o's read lock
\* before it releases the registry lock.
RegistryHolderNeeds(o) ==
    \/ /\ hmu.w = SweepTask
       /\ sweep.pc = "range"
       /\ \E code \in sweep.todo : Rooms[code] = o
    \/ \E i \in DOMAIN defers :
          hmu.w = DeferTask(i) /\ defers[i].pc = "isempty" /\ defers[i].room = o
    \/ /\ StatsTask \in hmu.r
       /\ stats.pc = "range"
       /\ \E code \in stats.todo : Rooms[code] = o

\* C11 as the specification states it: a broadcast blocked in a write to a
\* connection never keeps CreateRoom or GetRoom from completing: the
\* registry lock is never held by a task that cannot release it before the
\* blocked broadcast goes on (the task needs the room's read lock, which is
\* refused while a writer waits for the broadcast to end).
RegistryNeverBehindBroadcast ==
    \A o \in RoomRefs :
       ~(BroadcastInWrite(o) /\ WaitingWriters(o) # {} /\ RegistryHolderNeeds(o))

\* C12: CreateRoom returns no room and leaves the registry as it is when
\* the registry holds MaxRooms rooms, and so, however creates, deletes and
\* sweeps interleave, the registry never holds more than MaxRooms rooms.
RoomCeiling ==
    /\ Cardinality(DOMAIN Rooms) <= MaxRooms
    /\ Cardinality(DOMAIN Rooms) >= MaxRooms =>
          \A raw \in RawCodes :
             CreateRoom(Rooms, raw, nextRef + 1) = [room |-> NilRoom, Rooms |-> Rooms]

\* C12's case: the latest CreateRoom call found the registry full and
\* returned nil.
CreateRefused ==
    /\ created = NilRoom
    /\ Cardinality(DOMAIN Rooms) = MaxRooms

\* C13: AddPlayer returns false and leaves the room (participants, host,
\* avatars and all) as it is when the room holds MaxPlayers participants,
\* and so, however joins and leaves follow each other, a room never holds
\* more than MaxPlayers participants.
PlayerCeiling ==
    LET r == heap[TheRoom] IN
    /\ Cardinality(DOMAIN r.Players) <= MaxPlayers
    /\ Cardinality(DOMAIN r.Players) >= MaxPlayers =>
          \A id \in ConnIDs \ DOMAIN r.Players : \A rnd \in RandDraws(r) :
             AddPlayer(r, id, rnd) = [ok |-> FALSE, room |-> r]

\* C13's case: AddPlayer has refused a connection, and the room is full.
JoinRefused ==
    /\ \E p \in ConnIDs : task[ConnTask(p)].pc = "refused"
    /\ Cardinality(DOMAIN heap[TheRoom].Players) = MaxPlayers

\* The events about connection c among the messages written to p.
EventsAbout(p, c) ==
    {i \in DOMAIN outbox[p] :
        \/ outbox[p][i].type = "player_joined" /\ outbox[p][i].player.ID = c
        \/ outbox[p][i].type = "player_left" /\ outbox[p][i].playerId = c}

\* C14 as the specification states it: a connection whose join the full
\* room has rejected leaves no trace: it is handed no room, no participant
\* is written a participant-joined or participant-left event about it, and
\* none of its frames is read and dispatched.
RejectedJoinLeavesNoTrace ==
    LET t == ConnTask(Latecomer) IN
    (task[t].pc \notin {"new", "add"} /\ Latecomer \notin DOMAIN heap[1].Players) =>
       /\ \A p \in PlayerIDs : EventsAbout(p, Latecomer) = {}
       /\ task[t].pc \notin {"idle", "disc", "disc_bc", "disc_empty"}
       /\ task[t].op = 0

\* C15: the code CreateRoom registers a room under is upper-case and was in
\* use by no room of the registry when it was inserted: every registered
\* code is upper-case and is the Code of its room, no two codes name the
\* same room, and no step gives a registered code another room.
FreshCodes ==
    /\ [](\A c \in DOMAIN Rooms :
             /\ c = ToUpper(c)
             /\ heap[Rooms[c]].Code = c
             /\ \A d \in DOMAIN Rooms : Rooms[d] = Rooms[c] => d = c)
    /\ [][\A c \in DOMAIN Rooms : c \in DOMAIN Rooms' => Rooms'[c] = Rooms[c]]_vars

\* C15's case: a room was created while the lobby room was registered, and
\* both are in the registry.
CreatedBesideLobby ==
    /\ created = 2
    /\ Lobby \in DOMAIN Rooms
    /\ Rooms[Lobby] = 1
    /\ \E c \in DOMAIN Rooms : c # Lobby /\ Rooms[c] = 2

\* C16 as the specification states it: lookup and removal treat a code
\* without regard to case: for every code string c, GetRoom(c) is the room
\* registered under the upper-cased c (none: not-found), GetRoom(c) after
\* DeleteRoom(c) is not-found, and a second DeleteRoom(c) changes nothing.
CaseInsensitiveCodes ==
    \A c \in CodeInputs :
       /\ GetRoom(c) = IF \E d \in DOMAIN Rooms : d = ToUpper(c)
                       THEN Rooms[ToUpper(c)] ELSE NilRoom
       /\ RoomAt(RoomsWithout(Rooms, c), c) = NilRoom
       /\ RoomsWithout(RoomsWithout(Rooms, c), c) = RoomsWithout(Rooms, c)

\* C17 as the specification states it: a sweep removes every room that is
\* empty or expired when the sweep looks at it, and the room a sweep removes
\* is, at its removal, empty or expired: no room that has a participant and
\* has not expired is removed, whatever joins and commands run meanwhile.
SweepRemovesOnlyDead ==
    [][/\ (sweep.pc = "isempty" /\ sweep' # sweep /\ IsEmpty(heap[Rooms[sweep.cur]])) =>
            sweep'.pc = "delete"
       /\ (sweep.pc = "isexpired" /\ sweep' # sweep
             /\ IsExpired(heap[Rooms[sweep.cur]])) => sweep'.pc = "delete"
       /\ SweepDelete =>
            IsEmpty(heap[Rooms[sweep.cur]]) \/ IsExpired(heap[Rooms[sweep.cur]])]_vars

\* C18: Vote(id, token) for a participant of the room succeeds whether or
\* not the room is revealed: a token that is not empty becomes that
\* participant's vote, the empty token clears it, and nothing else of any
\* participant changes; for an id that is not in the room Vote returns
\* false and leaves the room as it is.
VoteContract ==
    LET r == heap[TheRoom] IN
    \A id \in ConnIDs, v \in VoteTokens :
       LET res == Vote(r, id, v) IN
       IF id \in DOMAIN r.Players
       THEN /\ res.ok
            /\ res.room.Players[id].Vote = v
            /\ res.room.Players[id].HasVoted = (v # NoVote)
            /\ res.room.Players[id] =
                  [r.Players[id] EXCEPT !.Vote = v, !.HasVoted = (v # NoVote)]
            /\ DOMAIN res.room.Players = DOMAIN r.Players
            /\ \A q \in (DOMAIN r.Players) \ {id} :
                  res.room.Players[q] = r.Players[q]
            /\ res.room = [r EXCEPT !.Players = res.room.Players,
                                    !.LastActive = res.room.LastActive]
       ELSE ~res.ok /\ res.room = r

\* C18's case: a revealed room with one participant who holds a vote and
\* one who holds none, and a connection that is not in the room.
RevealedRoomVotes ==
    LET r == heap[TheRoom] IN
    /\ r.Revealed
    /\ DOMAIN r.Players = {1, 2}
    /\ r.Players[1].Vote = Tok5
    /\ ~r.Players[2].HasVoted

\* C19 as the specification states it: the vote of every participant is
\* unset or a token of its room's scale, whatever vote frames are sent.
VotesOnScale ==
    \A o \in 1..nextRef : \A q \in DOMAIN heap[o].Players :
       \/ heap[o].Players[q].Vote = NoVote
       \/ heap[o].Players[q].Vote \in Range(heap[o].Scale)

\* C20: Reset yields a room that is not revealed and in which every vote is
\* cleared; Reset after Reset changes nothing; and Reset leaves the
\* participants with their hosts and avatars, the host, the scale and the
\* timer as they are.
ResetContract ==
    LET r == heap[TheRoom]
        a == Reset(r)
    IN /\ ~a.Revealed
       /\ \A q \in DOMAIN a.Players :
             a.Players[q].Vote = NoVote /\ ~a.Players[q].HasVoted
       /\ Reset(a) = a
       /\ DOMAIN a.Players = DOMAIN r.Players
       /\ \A q \in DOMAIN r.Players :
             a.Players[q] = [r.Players[q] EXCEPT !.Vote = NoVote, !.HasVoted = FALSE]
       /\ a = [r EXCEPT !.Revealed = FALSE, !.Players = a.Players,
                        !.LastActive = a.LastActive]

\* C20's case: a revealed room with two participants who hold votes, while
\* a timer runs.
RevealedRoundWithTimer ==
    LET r == heap[TheRoom] IN
    /\ r.Revealed
    /\ DOMAIN r.Players = {1, 2}
    /\ r.Players[1].HasVoted /\ r.Players[2].HasVoted
    /\ r.TimerEndTime # NoTime
    /\ r.timerCancel # NilChan

\* handleReset's reply to a participant who is not the host.
ResetDeniedMsg == ErrorMsg("only the host can reset")

\* C21 as the specification states it: a reset frame from a participant who
\* is not the host changes no room and no outbox, and its handler goes on to
\* write one error frame to the sender; a reset frame from the host leaves
\* the room not revealed with every vote cleared, and when its handler ends,
\* every participant of the room has been sent a full-state sync by it.
ResetReachesEveryone ==
    [][\A p \in PlayerIDs :
          LET t == ConnTask(p)
              o == task[t].room
          IN /\ ReadResetDenied(p) =>
                   /\ heap' = heap /\ outbox' = outbox
                   /\ task'[t].pc = "send" /\ task'[t].msg = ResetDeniedMsg
             /\ ReadReset(p) =>
                   /\ ~heap'[o].Revealed
                   /\ \A q \in DOMAIN heap'[o].Players :
                         heap'[o].Players[q].Vote = NoVote /\ ~heap'[o].Players[q].HasVoted
             /\ (task[t].pc = "reset_iter" /\ task'[t].pc \notin {"reset_iter", "reset_send"}) =>
                   DOMAIN heap[o].Players \subseteq task[t].seen]_vars

\* C22: StartTimer and StopTimer requested by a participant who is not the
\* host return false and leave the room as it is (deadline, auto-reveal flag
\* and cancellation signal included) and close no channel; the frame of such
\* a request closes no channel, starts no countdown task and leaves the
\* pending countdowns pending.
NonHostTimerRefused ==
    /\ [](\A p \in PlayerIDs :
            LET r == heap[TheRoom] IN
            (p \in DOMAIN r.Players /\ p # r.HostID) =>
               /\ StopTimer(r, p) = [ok |-> FALSE, room |-> r, closes |-> NilChan]
               /\ \A a \in BOOLEAN :
                     StartTimer(r, p, a, nextChan + 1, nextChan + 1) =
                        [ok |-> FALSE, room |-> r, closes |-> NilChan])
    /\ [][\A p \in PlayerIDs :
            LET t == ConnTask(p)
                o == task[t].room
                asked == \/ ReadStopTimer(p)
                         \/ \E d \in Durations, a \in BOOLEAN : ReadStartTimer(p, d, a)
            IN (asked /\ p # heap[o].HostID) =>
                  /\ heap' = heap
                  /\ chanClosed' = chanClosed /\ nextChan' = nextChan
                  /\ Pending' = Pending
                  /\ \A k \in 1..MaxTimers : task'[TimerTask(k)] = task[TimerTask(k)]
                  /\ task'[t].pc = "send" /\ task'[t].msg.type = "error"]_vars

\* C22's case: player 2, who is not the host, was refused while the host's
\* countdown waits in its select; the timer is still set.
NonHostRefusedTimerRuns ==
    /\ heap[TheRoom].HostID = 1
    /\ heap[TheRoom].TimerEndTime # NoTime
    /\ heap[TheRoom].timerCancel # NilChan
    /\ \E k \in 1..MaxTimers : task[TimerTask(k)].pc = "wait"
    /\ task[ConnTask(2)].pc = "idle"
    /\ \E i \in DOMAIN outbox[2] :
          outbox[2][i] \in {ErrorMsg("only the host can stop the timer"),
                            ErrorMsg("only the host can start the timer")}

\* handleStartTimer's reply to a duration outside 1..300 seconds.
InvalidDuration == ErrorMsg("invalid timer duration (1-300 seconds)")

\* C23: a start_timer frame whose duration is outside 1..300 seconds, from
\* the host or from anyone else, is never handled as a start: it changes no
\* room, no channel, no countdown task and no outbox, and its handler goes
\* on to write one error frame to the sender alone and returns to the read
\* loop with the connection open.
InvalidDurationRefused ==
    [][\A p \in PlayerIDs :
          LET t == ConnTask(p) IN
          /\ \A d \in Durations :
                ((d < 1 \/ d > MaxTimerDuration) /\
                 (ReadStartTimerInvalid(p, d) \/
                  \E a \in BOOLEAN : ReadStartTimer(p, d, a))) =>
                   /\ heap' = heap /\ outbox' = outbox
                   /\ chanClosed' = chanClosed /\ nextChan' = nextChan
                   /\ \A k \in 1..MaxTimers : task'[TimerTask(k)] = task[TimerTask(k)]
                   /\ task'[t].pc = "send" /\ task'[t].msg = InvalidDuration
                   /\ task'[t].next = "idle" /\ ~task'[t].closed
          /\ (task[t].pc = "send" /\ task[t].msg = InvalidDuration
                /\ task'[t] # task[t]) =>
                /\ heap' = heap
                /\ outbox' = [outbox EXCEPT ![p] = Append(@, InvalidDuration)]
                /\ task'[t].pc = "idle" /\ ~task'[t].closed]_vars

\* C23's case: the host and the other participant have both been sent the
\* error frame and are back in their read loops; no timer was started.
InvalidDurationSeen ==
    /\ \A p \in PlayerIDs :
          /\ task[ConnTask(p)].pc = "idle" /\ ~task[ConnTask(p)].closed
          /\ \E i \in DOMAIN outbox[p] : outbox[p][i] = InvalidDuration
    /\ heap[TheRoom].TimerEndTime = NoTime
    /\ nextChan = 0

\* C24 as the specification states it: a frame that cannot be decoded, or
\* whose type is unknown, changes no room and no outbox, and its handler
\* goes on to write one error frame to the sender and returns to the read
\* loop: the connection stays open and the sender stays in the room.
BadFrameNotFatal ==
    [][\A p \in PlayerIDs :
          LET t == ConnTask(p) IN
          (ReadUnknown(p) \/ ReadMalformed(p)) =>
             /\ heap' = heap /\ outbox' = outbox
             /\ task'[t].pc = "send" /\ task'[t].msg.type = "error"
             /\ task'[t].next = "idle" /\ ~task'[t].closed]_vars

\* The messages that tell a client who the host is: room_state (hostId) and
\* player_left (newHostId).
HostNews(p) ==
    {i \in DOMAIN outbox[p] : outbox[p][i].type \in {"sync", "player_left"}}

\* The host a client knows after applying, in order, what connection p was
\* written.
ClientHost(p) ==
    LET last == CHOOSE i \in HostNews(p) : \A j \in HostNews(p) : j <= i
        m == outbox[p][last]
    IN IF m.type = "sync" THEN m.state.HostID ELSE m.newHostId

\* C25 as the specification states it: once every handler has finished, each
\* participant of a room has been told, by the last room_state or
\* player_left written to it, the host the room actually has.
ClientsEndWithHost ==
    (\A t \in ConnTasks : task[t].pc \in {"new", "idle", "gone"}) =>
       \A o \in 1..nextRef : \A q \in DOMAIN heap[o].Players :
          HostNews(q) # {} => ClientHost(q) = heap[o].HostID

\* C26 as the specification states it: the first message written to a
\* connection that joined a room is the room_state that lists the joiner
\* itself, and no connection is written its own player_joined.
JoinerSeesStateFirst ==
    \A p \in ConnIDs :
       /\ outbox[p] # <<>> =>
             /\ outbox[p][1].type = "sync"
             /\ \E pm \in outbox[p][1].state.Players : pm.ID = p
       /\ \A i \in DOMAIN outbox[p] :
             outbox[p][i].type = "player_joined" => outbox[p][i].player.ID # p

\* C27: GetVotingResults returns exactly the votes of the participants with
\* HasVoted = true, the room's revealed flag, and as average the sum of the
\* votes that are numbers divided by their count (a token that is no number
\* is among the votes and not in the average); without a numeric vote the
\* average is zero.
ResultsContract ==
    LET r == heap[TheRoom]
        res == GetVotingResults(r)
        voted == {q \in DOMAIN r.Players : r.Players[q].HasVoted}
        numbers == {q \in voted : r.Players[q].Vote \in {Tok5, Tok8}}
        worth == [q \in numbers |-> IF r.Players[q].Vote = Tok5 THEN 5 ELSE 8]
    IN /\ DOMAIN res.Votes = voted
       /\ \A q \in voted : res.Votes[q] = r.Players[q].Vote
       /\ res.Revealed = r.Revealed
       /\ res.Average = IF numbers = {} THEN <<0, 1>>
                        ELSE <<SumOver(worth, numbers), Cardinality(numbers)>>
       /\ ParseFloat(Tok13) = [err |-> FALSE, val |-> 13]
       /\ ParseFloat(TokUnknown).err /\ ParseFloat(TokXL).err /\ ParseFloat(NoVote).err

\* C27's case: one participant voted 5, the other "?", and the room is
\* revealed: both votes are reported and the average is 5.
MixedVotesAveraged ==
    LET r == heap[TheRoom] IN
    /\ r.Revealed
    /\ DOMAIN r.Players = {1, 2}
    /\ r.Players[1].Vote = Tok5 /\ r.Players[2].Vote = TokUnknown
    /\ GetVotingResults(r).Average = <<5, 1>>
    /\ DOMAIN GetVotingResults(r).Votes = {1, 2}

\* The catalogue entries as avatars (no suffix).
Catalogue == {<<Avatars[i], -1>> : i \in DOMAIN Avatars}

BroadcastTriesEveryone ==
    [][\A t \in ConnTasks \cup TimerTasks :
          /\ (BroadcastBegin(t) /\ task'[t].pc = "bcast") =>
                task'[t].todo = (DOMAIN heap[task[t].room].Players) \ {task[t].cur}
          /\ \A q \in ConnIDs :
                BroadcastSend(t, q) =>
                   /\ heap' = heap
                   /\ outbox' = IF task[ConnTask(q)].closed THEN outbox
                                 ELSE [outbox EXCEPT ![q] = Append(@, task[t].msg)]
                   /\ IF task[t].todo = {q}
                      THEN task'[t].pc = task[t].next
                      ELSE task'[t].pc = "bcast" /\ task'[t].todo = task[t].todo \ {q}]_vars

\* C29's case: a broadcast has failed to write to a participant whose
\* connection is closed and still has an open connection to write to.
BroadcastPastFailure ==
    \E t \in ConnTasks \cup TimerTasks :
       /\ task[t].pc = "bcast"
       /\ \E q \in task[t].todo : ~task[ConnTask(q)].closed
       /\ \E c \in (DOMAIN heap[task[t].room].Players) \ (task[t].todo \cup {task[t].cur}) :
             /\ task[ConnTask(c)].closed
             /\ \A i \in DOMAIN outbox[c] : outbox[c][i] # task[t].msg

\* C30: at most one task is inside a write on any one connection, whatever
\* broadcasts, timer broadcasts and direct replies are under way.
OneWriterPerConnection ==
    \A q \in ConnIDs : Cardinality(Writers(q)) <= 1

\* C30's case: a timer task is inside a write of its broadcast on a
\* connection for which the dispatcher has a direct reply to write, or a
\* dispatcher's reply is being written while a timer task's broadcast has
\* that connection next.
WriteContended ==
    \E q \in PlayerIDs, k \in 1..MaxTimers :
       /\ task[ConnTask(q)].pc = "send"
       /\ task[TimerTask(k)].pc = "bcast"
       /\ q \in task[TimerTask(k)].todo
       /\ Writers(q) # {}

\* C31 as the specification states it: a step that changes a room's state
\* is taken with that room's lock held for writing, that is, while no task
\* holds the lock for reading.
MutationsUnderLock ==
    [][\A o \in RoomRefs : heap'[o] # heap[o] => CanLock(o)]_vars

\* C32 as the specification states it: an empty room has no host.
EmptyRoomHasNoHost ==
    \A o \in 1..nextRef :
       IsEmpty(heap[o]) => heap[o].HostID = NoID

\* C33 as the specification states it: while a room has no deadline, its
\* auto-reveal flag is false and it has no cancellation signal; while it has
\* a deadline, it has a cancellation signal.
TimerSetOrUnset ==
    \A o \in 1..nextRef :
       IF heap[o].TimerEndTime = NoTime
       THEN ~heap[o].TimerAutoReveal /\ heap[o].timerCancel = NilChan
       ELSE heap[o].timerCancel # NilChan

\* C34: every participant's HasVoted flag is true exactly when its vote is
\* not the empty token, whatever votes, unvotes and resets were handled.
VotedIffVoteSet ==
    \A o \in 1..nextRef : \A q \in DOMAIN heap[o].Players :
       heap[o].Players[q].HasVoted <=> heap[o].Players[q].Vote # NoVote

\* C34's case: participant 2 voted and then took its vote back (both events
\* were broadcast to participant 1), and holds no vote now.
VoteTakenBack ==
    /\ 2 \in DOMAIN heap[TheRoom].Players
    /\ heap[TheRoom].Players[2].Vote = NoVote
    /\ ~heap[TheRoom].Players[2].HasVoted
    /\ \E i, j \in DOMAIN outbox[1] :
          /\ i < j
          /\ outbox[1][i].type = "voted" /\ outbox[1][i].playerId = 2
          /\ outbox[1][i].hasVoted
          /\ outbox[1][j].type = "voted" /\ outbox[1][j].playerId = 2
          /\ ~outbox[1][j].hasVoted

\* C35 as the specification states it: the step of a grace-period deferral
\* that removes a room from the registry finds that room without a
\* participant at that moment: no AddPlayer comes between the emptiness
\* check and the removal.
DeferralRemovesOnlyEmpty ==
    [][\A i \in DOMAIN defers :
          (DeferDelete(i) /\ Rooms' # Rooms) => IsEmpty(heap[defers[i].room])]_vars

\* C36 as the specification states it: the deferral that removes a room was
\* scheduled for the room's latest empty spell: a deferral scheduled for an
\* earlier spell does not remove a room that was joined again after that
\* and has become empty once more, with the deferral of the later spell
\* still in its grace period.
OnlyLatestSpellRemoves ==
    [][\A i \in DOMAIN defers :
          (DeferDelete(i) /\ Rooms' # Rooms) =>
             \A j \in DOMAIN defers :
                (defers[j].of = defers[i].room /\ defers[j].pc = "sleep") =>
                   defers[j].joined \subseteq defers[i].joined]_vars

\* C37 as the specification states it: the expiry of a countdown clears the
\* timer state of its own timer only: when the task of the k-th countdown
\* calls ClearTimer, the room's cancellation signal is the k-th one or is
\* not set, and never that of a timer started later.
ExpiryClearsOwnTimer ==
    [][\A k \in 1..MaxTimers :
          TimerClear(k) =>
             heap[task[TimerTask(k)].room].timerCancel \in {NilChan, k}]_vars

\* C38 as the specification states it: the participant map of a room is
\* not changed by another task while a handler ranges over it: between the
\* start of handleReset's range over room.Players and its end, no step adds
\* a participant to that room or removes one from it.
NoMutationDuringRange ==
    [][\A p \in PlayerIDs :
          task[ConnTask(p)].pc \in {"reset_iter", "reset_send"} =>
             DOMAIN heap'[task[ConnTask(p)].room].Players =
                DOMAIN heap[task[ConnTask(p)].room].Players]_vars

(* ------------------------- who waits for whom -------------------------- *)

\* The registry lock, the room locks and the send locks, with dispatchers,
\* a countdown, the sweep and the deferrals all running, and every write to
\* a transport taking a step of its own.  The frames are votes, and a
\* start_timer that the host may send as the first frame.
NextLocks ==
    \/ Writing \/ Locking \/ Leaving \/ Sweeping \/ Deferring
    \/ \E p \in PlayerIDs : ReadVote(p, Tok5)
    \/ nframes = 0 /\ ReadStartTimer(1, 60, FALSE)
    \/ SpawnTimer(1)
    \/ \E k \in 1..MaxTimers : TimerArm(k)
    \/ \E k \in 1..MaxTimers : TimerExpire(k)
    \/ \E k \in 1..MaxTimers : TimerClear(k)
    \/ \E k \in 1..MaxTimers : TimerAutoCheck(k)

SpecLocks == Seated /\ [][NextLocks]_vars

\* The tasks that take locks.
LockTasks ==
    ConnTasks \cup TimerTasks \cup {DeferTask(i) : i \in 1..NumPlayers} \cup {SweepTask}

\* The tasks that hold Hub.mu.
HubHolders == (IF hmu.w = NoTask THEN {} ELSE {hmu.w}) \cup hmu.r

\* The tasks a handler or countdown task t cannot go on without: the
\* readers of its room if its next call is r.mu.Lock(), the callers blocked
\* in r.mu.Lock() if its next call is r.mu.RLock(), the writers on the
\* connections it is about to write to.  A task inside WriteJSON waits for
\* no task.
HandlerWaitsFor(t) ==
    IF task[t].to # NoID THEN {}
    ELSE IF task[t].pc = "lock_wait" \/ AboutToLock(t) THEN rmu[task[t].room]
    ELSE IF task[t].pc \in {"bcast_begin", "results", "sync_get", "reset_iter",
                            "disc_empty", "spawned"}
         THEN WaitingWriters(task[t].room)
    ELSE UNION {Writers(q) : q \in SendTargets(t)}

\* The same for a deferral: Hub.mu.Lock() after its sleep, then the room's
\* RLock() in room.IsEmpty().
DeferralWaitsFor(i) ==
    IF i \notin DOMAIN defers THEN {}
    ELSE IF defers[i].pc = "sleep" THEN HubHolders
    ELSE IF defers[i].pc = "isempty" THEN WaitingWriters(defers[i].room)
    ELSE {}

\* The same for the sweep: Hub.mu.Lock() at the tick, then RLock() of the
\* rooms it has yet to look at.
SweepWaitsFor ==
    IF sweep.pc = "idle" THEN HubHolders
    ELSE IF sweep.pc = "range"
         THEN UNION {WaitingWriters(Rooms[c]) : c \in sweep.todo \cap DOMAIN Rooms}
    ELSE IF sweep.pc = "isexpired" THEN WaitingWriters(Rooms[sweep.cur])
    ELSE {}

WaitsFor(t) ==
    IF t \in ConnTasks \cup TimerTasks THEN HandlerWaitsFor(t)
    ELSE IF t = SweepTask THEN SweepWaitsFor
    ELSE DeferralWaitsFor(t[2])

\* The tasks reached from the tasks in S along n edges of WaitsFor at most.
RECURSIVE WaitReach(_, _)
WaitReach(S, n) ==
    IF n = 0 THEN S
    ELSE WaitReach(S \cup UNION {WaitsFor(u) \cap LockTasks : u \in S}, n - 1)

\* C39: no task waits, through any chain of tasks that hold what the one
\* before needs, for itself: the registry lock, the room locks and the send
\* locks are never waited for in a cycle, a task inside a transport write
\* waiting for nothing.
NoWaitCycle ==
    \A t \in LockTasks :
       t \notin WaitReach(WaitsFor(t) \cap LockTasks, Cardinality(LockTasks))

\* All three kinds of lock are contended at once: a countdown task is
\* blocked in r.mu.Lock() behind a broadcast that is inside a write to a
\* connection another task wants to write to, and the sweep holds the
\* registry lock and cannot take the room's RLock.
LocksContended ==
    /\ \E k \in 1..MaxTimers : task[TimerTask(k)].pc = "lock_wait"
    /\ \E t \in rmu[TheRoom] :
          /\ t \in DOMAIN task /\ task[t].to # NoID
          /\ \E u \in DOMAIN task : u # t /\ task[t].to \in SendTargets(u)
    /\ hmu.w = SweepTask /\ sweep.pc = "range" /\ sweep.todo # {}

\* C40: no timer operation closes a signal that is closed already: the
\* signal a room holds has not been closed, and the signal StartTimer or
\* StopTimer would close from here, whoever calls it, is the room's own
\* (none when the room holds none); a signal StartTimer makes is new.
SignalClosedOnce ==
    \A o \in 1..nextRef :
       /\ heap[o].timerCancel \notin chanClosed
       /\ nextChan + 1 \notin chanClosed \cup {heap[o].timerCancel}
       /\ \A p \in ConnIDs :
             /\ StopTimer(heap[o], p).closes \in {NilChan, heap[o].timerCancel}
             /\ StopTimer(heap[o], p).room.timerCancel \notin
                   chanClosed \cup ({StopTimer(heap[o], p).closes} \ {NilChan})
             /\ \A a \in BOOLEAN :
                   LET res == StartTimer(heap[o], p, a, nextChan + 1, nextChan + 1)
                   IN /\ res.closes \in {NilChan, heap[o].timerCancel}
                      /\ res.room.timerCancel \notin
                            chanClosed \cup ({res.closes} \ {NilChan})
       /\ ClearTimer(heap[o]).timerCancel = NilChan

\* Every signal that was made has been closed, the earlier ones by the
\* StartTimer that replaced them and the last one by StopTimer, and the
\* room holds none.
EverySignalClosed ==
    /\ nextChan = MaxTimers
    /\ chanClosed = 1..MaxTimers
    /\ heap[TheRoom].timerCancel = NilChan

====
